---- MODULE Spec2Model ----
(***************************************************************************)
(* A model of remu, a RISC-V RV64 instruction-set simulator written in     *)
(* Rust: the CSR file, the instruction decoder, the physical bus with its  *)
(* devices, the MMU and the hart's fetch-decode-execute loop.              *)
(*                                                                         *)
(* Machine integers are bit vectors. A value of width w is the set of the  *)
(* positions in 0..w-1 of its one bits, so that a u64 is a subset of       *)
(* 0..63: the bitwise operators of the source are set operations and the   *)
(* wrapping arithmetic is carried out bit by bit, at the source's width.   *)
(***************************************************************************)
EXTENDS Integers, Sequences, FiniteSets, TLC

\* ------------------------------------------------------------------------
\* Bit vectors
\* ------------------------------------------------------------------------

Pow2(n) ==
    2 ^ n

\* The bit vector of a natural number below 2^31.
Bits(n) ==
    {i \in 0..30 : (n \div Pow2(i)) % 2 = 1}

\* The natural number of a bit vector that fits 31 bits.
RECURSIVE ToNat(_)
ToNat(v) ==
    IF v = {} THEN 0
    ELSE LET i == CHOOSE j \in v : TRUE IN Pow2(i) + ToNat(v \ {i})

\* A value from its hexadecimal digits, most significant first.
RECURSIVE Hex(_)
Hex(ds) ==
    IF ds = <<>> THEN {}
    ELSE LET n == Len(ds) IN
         {i + 4 : i \in Hex(SubSeq(ds, 1, n - 1))} \cup Bits(ds[n])

Width(w) ==
    0..(w - 1)

\* `v as uN`: truncation to the low w bits.
Trunc(v, w) ==
    v \cap Width(w)

\* A signed value of width from widened to width to (`as i64`, `as u64` of a signed).
SExt(v, from, to) ==
    IF (from - 1) \in v THEN Trunc(v, from) \cup (from..(to - 1)) ELSE Trunc(v, from)

BitAnd(a, b) ==
    a \cap b

BitOr(a, b) ==
    a \cup b

BitXor(a, b) ==
    (a \ b) \cup (b \ a)

BitNot(a, w) ==
    Width(w) \ a

\* `a << k` at width w, for 0 <= k.
Shl(a, k, w) ==
    {i + k : i \in {j \in a : j + k < w}}

\* Logical `a >> k`, for 0 <= k.
Shr(a, k) ==
    {i - k : i \in {j \in a : j >= k}}

\* Arithmetic `a >> k` of a signed value of width w, for 0 <= k < w.
Sar(a, k, w) ==
    Shr(a, k) \cup (IF (w - 1) \in a THEN (w - k)..(w - 1) ELSE {})

\* Unsigned a < b.
ULt(a, b) ==
    \E i \in b \ a : \A j \in a \ b : j < i

ULe(a, b) ==
    a = b \/ ULt(a, b)

\* Signed a < b at width w.
SLt(a, b, w) ==
    IF ((w - 1) \in a) # ((w - 1) \in b) THEN (w - 1) \in a ELSE ULt(a, b)

\* Bit i of v as a number.
B01(v, i) ==
    IF i \in v THEN 1 ELSE 0

\* The k-th 8-bit limb of v as a number: bits 8k .. 8k+7.
Limb(v, k) ==
    B01(v, 8 * k) + 2 * B01(v, 8 * k + 1) + 4 * B01(v, 8 * k + 2) + 8 * B01(v, 8 * k + 3)
    + 16 * B01(v, 8 * k + 4) + 32 * B01(v, 8 * k + 5) + 64 * B01(v, 8 * k + 6)
    + 128 * B01(v, 8 * k + 7)

\* The bit vector with the byte n placed at bit position off.
Lift(n, off) ==
    {i + off : i \in {j \in 0..7 : (n \div Pow2(j)) % 2 = 1}}

\* a + b + cin on 64 bits, limb by limb from limb k on with the carry cin into it:
\* bits 8k..63 of the sum, and the carry out as bit 64.
RECURSIVE AddFrom(_, _, _, _)
RECURSIVE AddLimb(_, _, _, _)
AddLimb(a, b, k, s) ==
    Lift(s % 256, 8 * k) \cup AddFrom(a, b, k + 1, s \div 256)

AddFrom(a, b, k, cin) ==
    IF k = 8 THEN (IF cin = 1 THEN {64} ELSE {})
    ELSE AddLimb(a, b, k, Limb(a, k) + Limb(b, k) + cin)

\* wrapping_add at width w <= 64: the low w bits of the 64-bit sum.
WrappingAdd(a, b, w) ==
    Trunc(AddFrom(Trunc(a, w), Trunc(b, w), 0, 0), w)

\* wrapping_sub at width w <= 64: a + ~b + 1.
WrappingSub(a, b, w) ==
    Trunc(AddFrom(Trunc(a, w), BitNot(b, 64), 0, 1), w)

\* The unsigned 64-bit addition a + b overflows.
AddOverflows(a, b) ==
    64 \in AddFrom(a, b, 0, 0)

\* The unsigned 64-bit subtraction a - b underflows.
SubUnderflows(a, b) ==
    ULt(a, b)

\* wrapping_neg at width w.
WrappingNeg(a, w) ==
    WrappingSub({}, a, w)

\* Column k of the schoolbook product of the limbs of a and b.
RECURSIVE MulColumn(_, _, _, _)
MulColumn(a, b, k, i) ==
    IF i > k THEN 0 ELSE Limb(a, i) * Limb(b, k - i) + MulColumn(a, b, k, i + 1)

\* The low 64 bits of a * b, column by column from column k on with the carry cin.
RECURSIVE MulFrom(_, _, _, _)
RECURSIVE MulLimb(_, _, _, _)
MulLimb(a, b, k, t) ==
    Lift(t % 256, 8 * k) \cup MulFrom(a, b, k + 1, t \div 256)

MulFrom(a, b, k, cin) ==
    IF k = 8 THEN {} ELSE MulLimb(a, b, k, MulColumn(a, b, k, 0) + cin)

\* wrapping_mul at width w <= 64: the low w bits of the product.
WrappingMul(a, b, w) ==
    Trunc(MulFrom(Trunc(a, w), Trunc(b, w), 0, 0), w)

\* The remainder r of a restoring division shifted left with bit i of a shifted in.
ShiftIn(a, i, r, w) ==
    Shl(r, 1, w) \cup (IF i \in a THEN {0} ELSE {})

\* Unsigned restoring division of a by b # 0 at width w: [q, r], from bit i down.
\* The remainder r stays below b; the bit shifted out of it counts as bit w.
RECURSIVE UDivFrom(_, _, _, _, _, _)
UDivFrom(a, b, i, q, r, w) ==
    IF i < 0 THEN [q |-> q, r |-> r]
    ELSE IF (w - 1) \in r \/ ULe(b, ShiftIn(a, i, r, w))
         THEN UDivFrom(a, b, i - 1, q \cup {i}, WrappingSub(ShiftIn(a, i, r, w), b, w), w)
         ELSE UDivFrom(a, b, i - 1, q, ShiftIn(a, i, r, w), w)

UDivMod(a, b, w) ==
    UDivFrom(Trunc(a, w), Trunc(b, w), w - 1, {}, {}, w)

\* The magnitude of a signed value of width w, as an unsigned value.
UnsignedAbs(a, w) ==
    IF (w - 1) \in a THEN WrappingNeg(a, w) ELSE a

IntMin(w) ==
    {w - 1}

AllOnes(w) ==
    Width(w)

\* The value m, negated when neg.
NegateIf(neg, m, w) ==
    IF neg THEN WrappingNeg(m, w) ELSE m

\* iN::wrapping_div for b # 0: MIN / -1 wraps to MIN, else truncating division.
SignedWrappingDiv(a, b, w) ==
    IF a = IntMin(w) /\ b = AllOnes(w) THEN IntMin(w)
    ELSE NegateIf(((w - 1) \in a) # ((w - 1) \in b),
                  UDivMod(UnsignedAbs(a, w), UnsignedAbs(b, w), w).q, w)

\* iN::wrapping_rem for b # 0: MIN % -1 is 0, else the remainder has the dividend's sign.
SignedWrappingRem(a, b, w) ==
    IF a = IntMin(w) /\ b = AllOnes(w) THEN {}
    ELSE NegateIf((w - 1) \in a,
                  UDivMod(UnsignedAbs(a, w), UnsignedAbs(b, w), w).r, w)

\* A zero-initialised array kept sparsely: only the non-zero slots are stored.
Get(f, k) ==
    IF k \in DOMAIN f THEN f[k] ELSE {}

Put(f, k, v) ==
    IF v = {}
    THEN [j \in DOMAIN f \ {k} |-> f[j]]
    ELSE [j \in DOMAIN f \cup {k} |-> IF j = k THEN v ELSE f[j]]

Empty ==
    [j \in {} |-> {}]

\* ------------------------------------------------------------------------
\* State
\* ------------------------------------------------------------------------

VARIABLES
    csrs,    \* Csrs.csrs: the 4096 CSR slots (sparse, address -> u64)
    pc,      \* RV64Cpu.pc
    x,       \* RV64Cpu.x: the 32 general registers (sparse, index -> u64)
    mode,    \* RV64Cpu.mode
    status,  \* where the hart is: "created", "initialised", "loaded", "running" (in
             \* execute's loop), "halted" (execute has returned), "panicked"
    mem,     \* RiscvBus.mem: [len: the length of Memory.data, data: its bytes (sparse)]
    plic,    \* RiscvBus.plic
    clint,   \* RiscvBus.clint: [mtime, mtimecmp]
    mmu,     \* RV64Cpu.mmu: [addressing_mode, physical_page_number]
    build,   \* the build profile: [overflow_checks: arithmetic overflow panics]
    last,    \* history: the last operation applied, its inputs, its result, the state before
    uart     \* the Uart and the thread it spawns (UartAbsent where none has been made)

vars ==
    <<csrs, pc, x, mode, status, mem, plic, clint, mmu, build, last, uart>>

\* ------------------------------------------------------------------------
\* csr.rs: the CSR file
\* ------------------------------------------------------------------------

SSTATUS == 256
SIE == 260
SIP == 324
SATP == 384
MSTATUS == 768
MEDELEG == 770
MIDELEG == 771
MIE == 772
MTVEC == 773
MSCRATCH == 832
MEPC == 833
MCAUSE == 834
MTVAL == 835
MIP == 836
CYCLE == 3072

MASK_SIE == {1}
MASK_MIE == {3}
MASK_SPIE == {5}
MASK_UBE == {6}
MASK_MPIE == {7}
MASK_SPP == {8}
MASK_MPP == {11, 12}
MASK_FS == {13, 14}
MASK_XS == {15, 16}
MASK_MPRV == {17}
MASK_SUM == {18}
MASK_MXR == {19}
MASK_UXL == {32, 33}
MASK_SD == {63}

MASK_SSTATUS ==
    MASK_SIE \cup MASK_SPIE \cup MASK_UBE \cup MASK_SPP \cup MASK_FS \cup MASK_XS
    \cup MASK_SUM \cup MASK_MXR \cup MASK_UXL \cup MASK_SD

\* Csrs::new: every slot is 0.
CsrsNew ==
    Empty

\* Csrs::load on the file c.
CsrsLoad(c, addr) ==
    CASE addr = SIE -> BitAnd(Get(c, MIE), Get(c, MIDELEG))
      [] addr = SIP -> BitAnd(Get(c, MIP), Get(c, MIDELEG))
      [] addr = SSTATUS -> BitAnd(Get(c, MSTATUS), MASK_SSTATUS)
      [] OTHER -> Get(c, addr)

\* Csrs::store with the sstatus arm writing the whole of mstatus (no MASK_SSTATUS).
CsrsStoreUnmasked(c, addr, value) ==
    CASE addr = SIE ->
           Put(c, MIE, BitOr(BitAnd(Get(c, MIE), BitNot(Get(c, MIDELEG), 64)),
                             BitAnd(Get(c, MIDELEG), value)))
      [] addr = SIP ->
           Put(c, MIP, BitOr(BitAnd(Get(c, MIE), BitNot(Get(c, MIDELEG), 64)),
                             BitAnd(Get(c, MIDELEG), value)))
      [] addr = SSTATUS -> Put(c, MSTATUS, value)
      [] OTHER -> Put(c, addr, value)

\* Csrs::store on the file c: the file after the store.
CsrsStore(c, addr, value) ==
    CASE addr = SIE ->
           Put(c, MIE, BitOr(BitAnd(Get(c, MIE), BitNot(Get(c, MIDELEG), 64)),
                             BitAnd(Get(c, MIDELEG), value)))
      [] addr = SIP ->
           Put(c, MIP, BitOr(BitAnd(Get(c, MIE), BitNot(Get(c, MIDELEG), 64)),
                             BitAnd(Get(c, MIDELEG), value)))
      [] addr = SSTATUS ->
           Put(c, MSTATUS, BitOr(BitAnd(Get(c, MSTATUS), BitNot(MASK_SSTATUS, 64)),
                                 BitAnd(value, MASK_SSTATUS)))
      [] OTHER -> Put(c, addr, value)

\* csr_min_prv_level
csr_min_prv_level(addr) ==
    (addr \div 256) % 4

\* csr_readonly
csr_readonly(addr) ==
    (addr \div 1024) % 4 = 3

\* ------------------------------------------------------------------------
\* Results: Result<T, Exception>, and a panic (the process aborts)
\* ------------------------------------------------------------------------

Ok(v) ==
    [tag |-> "Ok", exc |-> "", val |-> v]

\* Err(Exception::<exc>(val))
Err(exc, v) ==
    [tag |-> "Err", exc |-> exc, val |-> v]

Panic ==
    [tag |-> "Panic", exc |-> "", val |-> {}]

\* Arithmetic overflow panics in a build with overflow checks (a debug build) and
\* wraps in a build without them (a release build).
OverflowChecks ==
    build.overflow_checks

\* ------------------------------------------------------------------------
\* mem.rs: the DRAM byte vector
\* ------------------------------------------------------------------------

\* Memory::init: capacity zero bytes are pushed.
MemoryInit(m, capacity) ==
    [len |-> WrappingAdd(m.len, capacity, 64), data |-> m.data]

\* The index of byte i of an access at addr: addr.wrapping_add(i) as usize.
ByteIndex(addr, i) ==
    WrappingAdd(addr, Bits(i), 64)

\* Indexing Memory.data at idx is in bounds.
InBounds(m, idx) ==
    ULt(idx, m.len)

\* Memory::load, little endian: the value, or a panic (an index out of bounds, or a
\* shift by 64 or more bits in a build with overflow checks; without them the shift
\* amount wraps).
MemoryLoad(m, addr, size) ==
    IF \E i \in 0..(size - 1) :
          \/ ~InBounds(m, ByteIndex(addr, i))
          \/ (i * 8 >= 64 /\ OverflowChecks)
    THEN Panic
    ELSE Ok(UNION {Shl(Get(m.data, ByteIndex(addr, i)), (i * 8) % 64, 64) :
                     i \in 0..(size - 1)})

\* m.data after the loop of Memory::store: byte i of val (val >> (i * 8), the shift
\* amount wrapped at 64) is stored at addr + i, for i from 0 to size - 1 in this order.
\* The size indices are distinct, so that each byte written has one writer.
StoreBytes(data, addr, val, size) ==
    LET written == {ByteIndex(addr, i) : i \in 0..(size - 1)}
        byte(j) == Trunc(Shr(val, (ToNat(WrappingSub(j, addr, 64)) * 8) % 64), 8)
        after(j) == IF j \in written THEN byte(j) ELSE data[j]
    IN [j \in {k \in DOMAIN data \cup written : after(k) # {}} |-> after(j)]

\* Memory::store, little endian: the memory after it, or a panic.
MemoryStore(m, addr, size, val) ==
    IF \E i \in 0..(size - 1) :
          \/ ~InBounds(m, ByteIndex(addr, i))
          \/ (i * 8 >= 64 /\ OverflowChecks)
    THEN [tag |-> "Panic", mem |-> m]
    ELSE [tag |-> "Ok", mem |-> [len |-> m.len, data |-> StoreBytes(m.data, addr, val, size)]]

\* m.data after the loop of Memory::load_data: bytes[i] (a sequence of byte values)
\* is stored at addr + i - 1.
LoadDataBytes(data, bytes, addr) ==
    LET written == {ByteIndex(addr, i - 1) : i \in 1..Len(bytes)}
        byte(j) == bytes[ToNat(WrappingSub(j, addr, 64)) + 1]
        after(j) == IF j \in written THEN byte(j) ELSE data[j]
    IN [j \in {k \in DOMAIN data \cup written : after(k) # {}} |-> after(j)]

\* Memory::load_data
MemoryLoadData(m, bytes, addr) ==
    IF \E i \in 0..(Len(bytes) - 1) : ~InBounds(m, ByteIndex(addr, i))
    THEN [tag |-> "Panic", mem |-> m]
    ELSE [tag |-> "Ok",
          mem |-> [len |-> m.len, data |-> LoadDataBytes(m.data, bytes, addr)]]

\* ------------------------------------------------------------------------
\* bus.rs: the address map
\* ------------------------------------------------------------------------

DRAM_BASE ==
    Hex(<<8, 0, 0, 0, 0, 0, 0, 0>>)

\* 1024 * 1024 * 128
DRAM_SIZE ==
    Hex(<<8, 0, 0, 0, 0, 0, 0>>)

DRAM_END ==
    WrappingSub(WrappingAdd(DRAM_SIZE, DRAM_BASE, 64), Bits(1), 64)

PLIC_BASE ==
    Hex(<<12, 0, 0, 0, 0, 0, 0>>)

PLIC_SIZE ==
    Hex(<<4, 0, 0, 0, 0, 0, 0>>)

PLIC_END ==
    WrappingSub(WrappingAdd(PLIC_BASE, PLIC_SIZE, 64), Bits(1), 64)

CLINT_BASE ==
    Hex(<<2, 0, 0, 0, 0, 0, 0>>)

CLINT_SIZE ==
    Hex(<<1, 0, 0, 0, 0>>)

CLINT_END ==
    WrappingSub(WrappingAdd(CLINT_BASE, CLINT_SIZE, 64), Bits(1), 64)

\* The match pattern lo..=hi.
InRange(addr, lo, hi) ==
    ULe(lo, addr) /\ ULe(addr, hi)

\* ------------------------------------------------------------------------
\* clint.rs
\* ------------------------------------------------------------------------

CLINT_MTIMECMP ==
    WrappingAdd(CLINT_BASE, Hex(<<4, 0, 0, 0>>), 64)

CLINT_MTIME ==
    WrappingAdd(CLINT_BASE, Hex(<<11, 15, 15, 8>>), 64)

\* Clint::load
ClintLoad(c, addr, size) ==
    IF size # 64 THEN Err("LoadAccessFault", addr)
    ELSE CASE addr = CLINT_MTIMECMP -> Ok(c.mtimecmp)
           [] addr = CLINT_MTIME -> Ok(c.mtime)
           [] OTHER -> Err("LoadAccessFault", addr)

\* Clint::store: [res, clint]
ClintStore(c, addr, size, value) ==
    IF size # 64 THEN [res |-> Err("LoadAccessFault", addr), clint |-> c]
    ELSE CASE addr = CLINT_MTIMECMP -> [res |-> Ok({}), clint |-> [c EXCEPT !.mtimecmp = value]]
           [] addr = CLINT_MTIME -> [res |-> Ok({}), clint |-> [c EXCEPT !.mtime = value]]
           [] OTHER -> [res |-> Err("StoreAMOAccessFault", addr), clint |-> c]


\* ------------------------------------------------------------------------
\* plic.rs
\* ------------------------------------------------------------------------

SOURCE_COUNT == 32
MAX_SOURCE_COUNT == 1024

\* cpu::HART_COUNT, the length of Plic.context: the number of PLIC contexts, for one
\* hart its machine and its supervisor context.
HART_COUNT == 2

\* cpu::MAX_HART_COUNT: the contexts the PLIC address map has room for.
MAX_HART_COUNT == 15872

\* The length of source_priority, pending_bits and enable_bits.
WordCount ==
    (SOURCE_COUNT - 1) \div 32 + 1

\* PlicContext::new
PlicContextNew ==
    [priority_threshold |-> {}, claim_or_complete |-> {},
     enable_bits |-> [w \in 0..(WordCount - 1) |-> {}]]

\* Plic::new
PlicNew ==
    [source_priority |-> [w \in 0..(WordCount - 1) |-> {}],
     pending_bits |-> [w \in 0..(WordCount - 1) |-> {}],
     context |-> [c \in 0..(HART_COUNT - 1) |-> PlicContextNew]]

INT_PRIORITY_BASE == 0
INT_PRIORITY_STRIDE == 4
INT_PRIORITY_END ==
    INT_PRIORITY_BASE + INT_PRIORITY_STRIDE * MAX_SOURCE_COUNT - 1

INT_PENDING_BASE == 4096
INT_PENDING_STRIDE == 4
INT_PENDING_COUNT ==
    MAX_SOURCE_COUNT \div 32
INT_PENDING_END ==
    INT_PENDING_BASE + INT_PENDING_STRIDE * INT_PENDING_COUNT - 1

INT_ENABLE_BITS_BASE == 8192
INT_ENABLE_BITS_STRIDE == 128
INT_ENABLE_BITS_END ==
    INT_ENABLE_BITS_BASE + INT_ENABLE_BITS_STRIDE * MAX_HART_COUNT - 1

INT_PRIORITY_THRESHOLD_BASE == 2097152
INT_PRIORITY_THRESHOLD_STRIDE == 4096
INT_PRIORITY_THRESHOLD_END ==
    INT_PRIORITY_THRESHOLD_BASE + INT_PRIORITY_THRESHOLD_STRIDE * MAX_HART_COUNT - 1

PlicOp(kind, a, b) ==
    [tag |-> "Ok", kind |-> kind, a |-> a, b |-> b]

PlicNoOp(tag) ==
    [tag |-> tag, kind |-> "", a |-> 0, b |-> 0]

\* parse_addr on a relative address that fits 31 bits.
ParseRelative(r) ==
    CASE INT_PRIORITY_BASE <= r /\ r <= INT_PRIORITY_END ->
           PlicOp("InterruptPriorityOfSource",
                  (r - INT_PRIORITY_BASE) \div INT_PRIORITY_STRIDE, 0)
      [] INT_PENDING_BASE <= r /\ r <= INT_PENDING_END ->
           PlicOp("InterruptPendingBit", (r - INT_PENDING_BASE) \div INT_PENDING_STRIDE, 0)
      [] INT_ENABLE_BITS_BASE <= r /\ r <= INT_ENABLE_BITS_END ->
           PlicOp("EnableBitsForSourcesAndOnContext",
                  (r - INT_ENABLE_BITS_BASE) \div INT_ENABLE_BITS_STRIDE,
                  (r - INT_ENABLE_BITS_BASE) % INT_ENABLE_BITS_STRIDE)
      [] INT_PRIORITY_THRESHOLD_BASE <= r /\ r <= INT_PRIORITY_THRESHOLD_END ->
           LET context == (r - INT_PRIORITY_THRESHOLD_BASE) \div INT_PRIORITY_THRESHOLD_STRIDE
               threshold == (r - INT_PRIORITY_THRESHOLD_BASE) % INT_PRIORITY_THRESHOLD_STRIDE
           IN CASE threshold = 0 -> PlicOp("PriorityThresholdForContext", context, 0)
                [] threshold = 4 -> PlicOp("ClaimOrCompleteForContext", context, 0)
                [] OTHER -> PlicNoOp("Err")
      [] OTHER -> PlicNoOp("Err")

\* parse_addr on the relative address, which names no register when it is 2^31 or more.
ParseWrapped(relative) ==
    IF relative \cap (31..63) # {} THEN PlicNoOp("Err") ELSE ParseRelative(ToNat(relative))

\* parse_addr: `addr - PLIC_BASE` panics when it underflows in a build with overflow
\* checks and wraps in one without.
parse_addr(addr) ==
    IF ULt(addr, PLIC_BASE) /\ OverflowChecks THEN PlicNoOp("Panic")
    ELSE ParseWrapped(WrappingSub(addr, PLIC_BASE, 64))

\* The match of Plic::load on the parsed address o; indexing past an array panics.
PlicLoadAt(p, o) ==
    CASE o.tag = "Panic" -> Panic
      [] o.tag = "Err" -> Ok({})
      [] o.kind = "InterruptPriorityOfSource" ->
           IF o.a < WordCount THEN Ok(p.source_priority[o.a]) ELSE Panic
      [] o.kind = "InterruptPendingBit" ->
           IF o.a < WordCount THEN Ok(p.pending_bits[o.a]) ELSE Panic
      [] o.kind = "EnableBitsForSourcesAndOnContext" ->
           IF o.b < HART_COUNT /\ o.a < WordCount
           THEN Ok(p.context[o.b].enable_bits[o.a]) ELSE Panic
      [] o.kind = "PriorityThresholdForContext" ->
           IF o.a < HART_COUNT THEN Ok(p.context[o.a].priority_threshold) ELSE Panic
      [] o.kind = "ClaimOrCompleteForContext" ->
           IF o.a < HART_COUNT THEN Ok(p.context[o.a].claim_or_complete) ELSE Panic

\* Plic::load
PlicLoad(p, addr, size) ==
    IF size # 4 THEN Err("LoadAccessFault", addr) ELSE PlicLoadAt(p, parse_addr(addr))

\* The match of Plic::store on the parsed address o, v the value `as u32`: [res, plic].
PlicStoreAt(p, o, v) ==
    CASE o.tag = "Panic" -> [res |-> Panic, plic |-> p]
      [] o.tag = "Err" -> [res |-> Ok({}), plic |-> p]
      [] o.kind = "InterruptPriorityOfSource" ->
           IF o.a < WordCount
           THEN [res |-> Ok({}), plic |-> [p EXCEPT !.source_priority[o.a] = v]]
           ELSE [res |-> Panic, plic |-> p]
      [] o.kind = "InterruptPendingBit" ->
           IF o.a < WordCount
           THEN [res |-> Ok({}), plic |-> [p EXCEPT !.pending_bits[o.a] = v]]
           ELSE [res |-> Panic, plic |-> p]
      [] o.kind = "EnableBitsForSourcesAndOnContext" ->
           IF o.b < HART_COUNT /\ o.a < WordCount
           THEN [res |-> Ok({}), plic |-> [p EXCEPT !.context[o.b].enable_bits[o.a] = v]]
           ELSE [res |-> Panic, plic |-> p]
      [] o.kind = "PriorityThresholdForContext" ->
           IF o.a < HART_COUNT
           THEN [res |-> Ok({}), plic |-> [p EXCEPT !.context[o.a].priority_threshold = v]]
           ELSE [res |-> Panic, plic |-> p]
      [] o.kind = "ClaimOrCompleteForContext" ->
           IF o.a < HART_COUNT
           THEN [res |-> Ok({}), plic |-> [p EXCEPT !.context[o.a].claim_or_complete = v]]
           ELSE [res |-> Panic, plic |-> p]

\* Plic::store: [res, plic]
PlicStore(p, addr, size, value) ==
    IF size # 4 THEN [res |-> Err("StoreAMOAccessFault", addr), plic |-> p]
    ELSE PlicStoreAt(p, parse_addr(addr), Trunc(value, 32))

\* ------------------------------------------------------------------------
\* bus.rs: impl Bus for RiscvBus, and the DRAM-only accessors the executor uses
\* ------------------------------------------------------------------------

\* RiscvBus::load with loads of unmapped addresses reading as 0.
BusLoadUnmappedZero(addr, size) ==
    CASE InRange(addr, DRAM_BASE, DRAM_END) ->
           MemoryLoad(mem, WrappingSub(addr, DRAM_BASE, 64), size)
      [] InRange(addr, PLIC_BASE, PLIC_END) ->
           PlicLoad(plic, WrappingSub(addr, PLIC_BASE, 64), size)
      [] InRange(addr, CLINT_BASE, CLINT_END) ->
           ClintLoad(clint, WrappingSub(addr, CLINT_BASE, 64), size)
      [] OTHER -> Ok({})

\* RiscvBus::load (the Bus trait)
BusLoad(addr, size) ==
    CASE InRange(addr, DRAM_BASE, DRAM_END) ->
           MemoryLoad(mem, WrappingSub(addr, DRAM_BASE, 64), size)
      [] InRange(addr, PLIC_BASE, PLIC_END) ->
           PlicLoad(plic, WrappingSub(addr, PLIC_BASE, 64), size)
      [] InRange(addr, CLINT_BASE, CLINT_END) ->
           ClintLoad(clint, WrappingSub(addr, CLINT_BASE, 64), size)
      [] OTHER -> Err("LoadAccessFault", addr)

\* The result of a DRAM store on the bus, r the result of Memory::store.
DramStored(r) ==
    [res |-> IF r.tag = "Ok" THEN Ok({}) ELSE Panic, mem |-> r.mem, plic |-> plic,
     clint |-> clint]

PlicStored(r) ==
    [res |-> r.res, mem |-> mem, plic |-> r.plic, clint |-> clint]

ClintStored(r) ==
    [res |-> r.res, mem |-> mem, plic |-> plic, clint |-> r.clint]

\* RiscvBus::store (the Bus trait): [res, mem, plic, clint], the result and the
\* devices after the store.
BusStore(addr, size, data) ==
    CASE InRange(addr, DRAM_BASE, DRAM_END) ->
           DramStored(MemoryStore(mem, WrappingSub(addr, DRAM_BASE, 64), size, data))
      [] InRange(addr, PLIC_BASE, PLIC_END) ->
           PlicStored(PlicStore(plic, WrappingSub(addr, PLIC_BASE, 64), size, data))
      [] InRange(addr, CLINT_BASE, CLINT_END) ->
           ClintStored(ClintStore(clint, WrappingSub(addr, CLINT_BASE, 64), size, data))
      [] OTHER ->
           [res |-> Err("StoreAMOAccessFault", addr), mem |-> mem, plic |-> plic,
            clint |-> clint]

\* RiscvBus::load_byte, load_half, load_word, load_double: size is 1, 2, 4 or 8.
BusLoadSized(addr, size) ==
    IF InRange(addr, DRAM_BASE, DRAM_END)
    THEN MemoryLoad(mem, WrappingSub(addr, DRAM_BASE, 64), size)
    ELSE Err("LoadAccessFault", addr)

\* The result of a DRAM-only store, r the result of Memory::store: [res, mem].
DramOnlyStored(r) ==
    [res |-> IF r.tag = "Ok" THEN Ok({}) ELSE Panic, mem |-> r.mem]

\* RiscvBus::store_byte, store_half, store_word, store_double: Memory::write_u8 ..
\* write_u64 store the size bytes one at a time, from the lowest address.
BusStoreSized(addr, size, data) ==
    IF InRange(addr, DRAM_BASE, DRAM_END)
    THEN DramOnlyStored(MemoryStore(mem, WrappingSub(addr, DRAM_BASE, 64), size, data))
    ELSE [res |-> Err("StoreAMOAccessFault", addr), mem |-> mem]

\* RiscvBus::load_data
BusLoadData(addr, bytes) ==
    IF InRange(addr, DRAM_BASE, DRAM_END)
    THEN DramOnlyStored(MemoryLoadData(mem, bytes, WrappingSub(addr, DRAM_BASE, 64)))
    ELSE [res |-> Err("LoadAccessFault", addr), mem |-> mem]


\* ------------------------------------------------------------------------
\* decode.rs: the decoder of 32-bit instruction words
\* ------------------------------------------------------------------------

\* The n bits of a word from bit lo on, as a number.
Field(bits, lo, n) ==
    ToNat(Trunc(Shr(bits, lo), n))

rd(bits) ==
    Field(bits, 7, 5)

rs1(bits) ==
    Field(bits, 15, 5)

rs2(bits) ==
    Field(bits, 20, 5)

funct3(bits) ==
    Field(bits, 12, 3)

funct7(bits) ==
    Field(bits, 25, 7)

\* csr: the CSR address, bits 31..20.
csr(bits) ==
    Field(bits, 20, 12)

\* The immediates are i32 values, kept as 32-bit vectors.
i_imm(bits) ==
    Sar(bits, 20, 32)

s_imm(bits) ==
    BitOr(Sar(BitAnd(bits, 25..31), 20, 32), Sar(BitAnd(bits, 7..11), 7, 32))

b_imm(bits) ==
    BitOr(BitOr(Sar(BitAnd(bits, {31}), 19, 32), Shl(BitAnd(bits, {7}), 4, 32)),
          BitOr(Sar(BitAnd(bits, 25..30), 20, 32), Sar(BitAnd(bits, 8..11), 7, 32)))

u_imm(bits) ==
    BitAnd(bits, 12..31)

j_imm(bits) ==
    BitOr(BitOr(Sar(BitAnd(bits, {31}), 11, 32), BitAnd(bits, 12..19)),
          BitOr(Sar(BitAnd(bits, {20}), 9, 32), Sar(BitAnd(bits, 21..30), 20, 32)))

\* A decoded instruction (RiscvInst): the variant and its fields, those a variant
\* lacks being 0. csr is the address a Csr* variant carries.
Inst(op, d, s1, s2, imm, c) ==
    [op |-> op, rd |-> d, rs1 |-> s1, rs2 |-> s2, imm |-> imm, csr |-> c]

Illegal ==
    Inst("Illegal", 0, 0, 0, {}, 0)

\* `imm >= n` on i32.
ImmGe(imm, n) ==
    ~SLt(imm, Bits(n), 32)

\* `imm & !0x400`
ClearBit10(imm) ==
    BitAnd(imm, BitNot({10}, 32))

\* The funct3 = 001 and 101 arms of OP-IMM (limit 64) and OP-IMM-32 (limit 32).
DecodeShiftImm(f3, d, s1, imm, limit, left, right, arith) ==
    IF f3 = 1
    THEN IF ImmGe(imm, limit) THEN Illegal ELSE Inst(left, d, s1, 0, imm, 0)
    ELSE IF ImmGe(ClearBit10(imm), limit) THEN Illegal
         ELSE IF 10 \in imm THEN Inst(arith, d, s1, 0, ClearBit10(imm), 0)
              ELSE Inst(right, d, s1, 0, imm, 0)

DecodeLoad(f3, d, s1, imm) ==
    CASE f3 = 0 -> Inst("Lb", d, s1, 0, imm, 0)
      [] f3 = 1 -> Inst("Lh", d, s1, 0, imm, 0)
      [] f3 = 2 -> Inst("Lw", d, s1, 0, imm, 0)
      [] f3 = 3 -> Inst("Ld", d, s1, 0, imm, 0)
      [] f3 = 4 -> Inst("Lbu", d, s1, 0, imm, 0)
      [] f3 = 5 -> Inst("Lhu", d, s1, 0, imm, 0)
      [] f3 = 6 -> Inst("Lwu", d, s1, 0, imm, 0)
      [] OTHER -> Illegal

DecodeOpImm(f3, d, s1, imm) ==
    CASE f3 = 0 -> Inst("Addi", d, s1, 0, imm, 0)
      [] f3 = 2 -> Inst("Slti", d, s1, 0, imm, 0)
      [] f3 = 3 -> Inst("Sltiu", d, s1, 0, imm, 0)
      [] f3 = 4 -> Inst("Xori", d, s1, 0, imm, 0)
      [] f3 = 6 -> Inst("Ori", d, s1, 0, imm, 0)
      [] f3 = 7 -> Inst("Andi", d, s1, 0, imm, 0)
      [] OTHER -> DecodeShiftImm(f3, d, s1, imm, 64, "Slli", "Srli", "Srai")

DecodeOpImm32(f3, d, s1, imm) ==
    CASE f3 = 0 -> Inst("Addiw", d, s1, 0, imm, 0)
      [] f3 \in {1, 5} -> DecodeShiftImm(f3, d, s1, imm, 32, "Slliw", "Srliw", "Sraiw")
      [] OTHER -> Illegal

DecodeStore(f3, s1, s2, imm) ==
    CASE f3 = 0 -> Inst("Sb", 0, s1, s2, imm, 0)
      [] f3 = 1 -> Inst("Sh", 0, s1, s2, imm, 0)
      [] f3 = 2 -> Inst("Sw", 0, s1, s2, imm, 0)
      [] f3 = 3 -> Inst("Sd", 0, s1, s2, imm, 0)
      [] OTHER -> Illegal

\* The variant of OP for funct7 and funct3, "Illegal" included.
OpName(f7, f3) ==
    CASE f7 = 1 -> <<"Mul", "Mulh", "Mulhsu", "Mulhu", "Div", "Divu", "Rem", "Remu">>[f3 + 1]
      [] f7 = 0 -> <<"Add", "Sll", "Slt", "Sltu", "Xor", "Srl", "Or", "And">>[f3 + 1]
      [] f7 = 32 /\ f3 = 0 -> "Sub"
      [] f7 = 32 /\ f3 = 5 -> "Sra"
      [] OTHER -> "Illegal"

\* The variant of OP-32 for funct7 and funct3, "Illegal" included.
Op32Name(f7, f3) ==
    CASE f7 = 1 /\ f3 = 0 -> "Mulw"
      [] f7 = 1 /\ f3 = 4 -> "Divw"
      [] f7 = 1 /\ f3 = 5 -> "Divuw"
      [] f7 = 1 /\ f3 = 6 -> "Remw"
      [] f7 = 1 /\ f3 = 7 -> "Remuw"
      [] f7 = 0 /\ f3 = 0 -> "Addw"
      [] f7 = 0 /\ f3 = 1 -> "Sllw"
      [] f7 = 0 /\ f3 = 5 -> "Srlw"
      [] f7 = 32 /\ f3 = 0 -> "Subw"
      [] f7 = 32 /\ f3 = 5 -> "Sraw"
      [] OTHER -> "Illegal"

\* An R-type instruction of the variant name.
DecodeR(name, d, s1, s2) ==
    IF name = "Illegal" THEN Illegal ELSE Inst(name, d, s1, s2, {}, 0)

DecodeBranch(f3, s1, s2, imm) ==
    CASE f3 = 0 -> Inst("Beq", 0, s1, s2, imm, 0)
      [] f3 = 1 -> Inst("Bne", 0, s1, s2, imm, 0)
      [] f3 = 4 -> Inst("Blt", 0, s1, s2, imm, 0)
      [] f3 = 5 -> Inst("Bge", 0, s1, s2, imm, 0)
      [] f3 = 6 -> Inst("Bltu", 0, s1, s2, imm, 0)
      [] f3 = 7 -> Inst("Bgeu", 0, s1, s2, imm, 0)
      [] OTHER -> Illegal

\* The funct3 = 000 arm of SYSTEM.
DecodePriv(bits, d, s1, s2) ==
    CASE bits = Hex(<<7, 3>>) -> Inst("Ecall", 0, 0, 0, {}, 0)
      [] bits = Hex(<<1, 0, 0, 0, 7, 3>>) -> Inst("Ebreak", 0, 0, 0, {}, 0)
      [] bits = Hex(<<3, 0, 2, 0, 0, 0, 7, 3>>) -> Inst("Mret", 0, 0, 0, {}, 0)
      [] bits = Hex(<<1, 0, 2, 0, 0, 0, 7, 3>>) -> Inst("Sret", 0, 0, 0, {}, 0)
      [] bits = Hex(<<1, 0, 5, 0, 0, 0, 7, 3>>) -> Inst("Wfi", 0, 0, 0, {}, 0)
      [] OTHER -> IF d = 0 /\ funct7(bits) = 9 THEN Inst("SfenceVma", 0, s1, s2, {}, 0)
                  ELSE Illegal

\* The CSR arm of SYSTEM with the check of a write to a read-only CSR left out.
DecodeCsrUnchecked(f3, d, s1, c) ==
    CASE f3 = 1 -> Inst("Csrrw", d, s1, 0, {}, c)
      [] f3 = 2 -> Inst("Csrrs", d, s1, 0, {}, c)
      [] f3 = 3 -> Inst("Csrrc", d, s1, 0, {}, c)
      [] f3 = 5 -> Inst("Csrrwi", d, 0, 0, Bits(s1), c)
      [] f3 = 6 -> Inst("Csrrsi", d, 0, 0, Bits(s1), c)
      [] f3 = 7 -> Inst("Csrrci", d, 0, 0, Bits(s1), c)

\* The CSR arm of SYSTEM: funct3 is none of 000 and 100. `readonly` of the source is
\* (function & 0b010 != 0 && rs1 == 0); csr.readonly() is csr_readonly of the address.
DecodeCsr(f3, d, s1, c) ==
    IF csr_readonly(c) /\ ~((f3 \div 2) % 2 # 0 /\ s1 = 0) THEN Illegal
    ELSE CASE f3 = 1 -> Inst("Csrrw", d, s1, 0, {}, c)
           [] f3 = 2 -> Inst("Csrrs", d, s1, 0, {}, c)
           [] f3 = 3 -> Inst("Csrrc", d, s1, 0, {}, c)
           [] f3 = 5 -> Inst("Csrrwi", d, 0, 0, Bits(s1), c)
           [] f3 = 6 -> Inst("Csrrsi", d, 0, 0, Bits(s1), c)
           [] f3 = 7 -> Inst("Csrrci", d, 0, 0, Bits(s1), c)

DecodeSystem(bits, f3, d, s1, s2) ==
    CASE f3 = 0 -> DecodePriv(bits, d, s1, s2)
      [] f3 = 4 -> Illegal
      [] OTHER -> DecodeCsr(f3, d, s1, csr(bits))

\* The opcodes of the floating-point and atomic instructions (LOAD-FP, STORE-FP, AMO,
\* MADD, MSUB, NMSUB, NMADD, OP-FP), whose arms of decode are not modelled.
FpAmoOpcodes ==
    {7, 39, 47, 67, 71, 75, 79, 83}

\* The match of decode on the opcode, bits[6:0].
DecodeOpcode(bits, opcode, f3, d, s1, s2) ==
    CASE opcode = 3 -> DecodeLoad(f3, d, s1, i_imm(bits))
      [] opcode = 19 -> DecodeOpImm(f3, d, s1, i_imm(bits))
      [] opcode = 15 -> IF f3 = 0 THEN Inst("Fence", 0, 0, 0, {}, 0)
                        ELSE IF f3 = 1 THEN Inst("FenceI", 0, 0, 0, {}, 0) ELSE Illegal
      [] opcode = 27 -> DecodeOpImm32(f3, d, s1, i_imm(bits))
      [] opcode = 35 -> DecodeStore(f3, s1, s2, s_imm(bits))
      [] opcode = 51 -> DecodeR(OpName(funct7(bits), f3), d, s1, s2)
      [] opcode = 55 -> Inst("Lui", d, 0, 0, u_imm(bits), 0)
      [] opcode = 59 -> DecodeR(Op32Name(funct7(bits), f3), d, s1, s2)
      [] opcode = 23 -> Inst("Auipc", d, 0, 0, u_imm(bits), 0)
      [] opcode = 99 -> DecodeBranch(f3, s1, s2, b_imm(bits))
      [] opcode = 103 -> Inst("Jalr", d, s1, 0, i_imm(bits), 0)
      [] opcode = 111 -> Inst("Jal", d, 0, 0, j_imm(bits), 0)
      [] opcode = 115 -> DecodeSystem(bits, f3, d, s1, s2)
      [] opcode \in FpAmoOpcodes -> Inst("FpAmo", 0, 0, 0, {}, 0)
      [] OTHER -> Illegal

\* decode: the instruction of a 32-bit word; "Panic" when the assertion on the low
\* two bits fails.
decode(bits) ==
    IF ~({0, 1} \subseteq bits) THEN Inst("Panic", 0, 0, 0, {}, 0)
    ELSE IF (0..4) \subseteq bits THEN Illegal
    ELSE DecodeOpcode(bits, Field(bits, 0, 7), funct3(bits), rd(bits), rs1(bits), rs2(bits))

\* ------------------------------------------------------------------------
\* mmu.rs
\* ------------------------------------------------------------------------

\* MMU::set_ppn: the mmu after it. The addressing mode stays as it is.
set_ppn(m, satp) ==
    [m EXCEPT !.physical_page_number = Trunc(satp, 44)]

\* PageTableEntry64::get_ppn for Sv39
get_ppn(pte) ==
    Trunc(Shr(pte, 10), 44)

\* PageTableEntry64::get_ppns for Sv39: ppn[k]
get_ppns(pte, k) ==
    CASE k = 0 -> Trunc(Shr(pte, 10), 9)
      [] k = 1 -> Trunc(Shr(pte, 19), 9)
      [] k = 2 -> Trunc(Shr(pte, 28), 26)

\* vpn[i] of translate_sv39
Sv39Vpn(addr, i) ==
    Trunc(Shr(addr, 12 + 9 * i), 9)

\* err of translate_sv39: the page fault of the access type.
PageFault(access_type, addr) ==
    CASE access_type = "Instruction" -> Err("InstructionPageFault", addr)
      [] access_type = "Load" -> Err("LoadPageFault", addr)
      [] access_type = "Store" -> Err("StoreAMOPageFault", addr)

\* The result of translate_sv39 for the leaf pte found at level i.
Sv39Leaf(pte, addr, i) ==
    CASE i = 0 -> Ok(BitOr(Shl(get_ppn(pte), 12, 64), Trunc(addr, 12)))
      [] i = 1 -> Ok(BitOr(BitOr(Shl(get_ppns(pte, 2), 30, 64), Shl(get_ppns(pte, 1), 21, 64)),
                           BitOr(Shl(Sv39Vpn(addr, 0), 12, 64), Trunc(addr, 12))))
      [] i = 2 -> Ok(BitOr(BitOr(Shl(get_ppns(pte, 2), 30, 64), Shl(Sv39Vpn(addr, 1), 21, 64)),
                           BitOr(Shl(Sv39Vpn(addr, 0), 12, 64), Trunc(addr, 12))))

\* The loop of translate_sv39 from level i on, the table at root; r is the result of
\* the bus load of the entry, whose error `?` returns.
RECURSIVE Sv39Walk(_, _, _, _)
\* A loop that does not test V before it takes an entry for a leaf or a pointer.
Sv39EntryUnvalidated(access_type, addr, i, r) ==
    IF r.tag # "Ok" THEN r
    ELSE IF 1 \in r.val \/ 3 \in r.val THEN Sv39Leaf(r.val, addr, i)
    ELSE IF i - 1 < 0 THEN PageFault(access_type, addr)
    ELSE Sv39Walk(access_type, addr, Shl(get_ppn(r.val), 12, 64), i - 1)

Sv39Entry(access_type, addr, i, r) ==
    IF r.tag # "Ok" THEN r
    ELSE IF 0 \notin r.val \/ (1 \notin r.val /\ 2 \in r.val) THEN PageFault(access_type, addr)
    ELSE IF 1 \in r.val \/ 3 \in r.val THEN Sv39Leaf(r.val, addr, i)
    ELSE IF i - 1 < 0 THEN PageFault(access_type, addr)
    ELSE Sv39Walk(access_type, addr, Shl(get_ppn(r.val), 12, 64), i - 1)

Sv39Walk(access_type, addr, root, i) ==
    Sv39Entry(access_type, addr, i,
              BusLoad(WrappingAdd(root, Shl(Sv39Vpn(addr, i), 3, 64), 64), 8))

\* MMU::translate_sv39
translate_sv39(access_type, addr) ==
    Sv39Walk(access_type, addr, Shl(mmu.physical_page_number, 12, 64), 2)

\* The number of bus loads the loop of translate_sv39 makes from level i on, the table
\* at root: one for the entry, and those of the next level when the entry is loaded,
\* is valid and a pointer, and a level is left.
RECURSIVE Sv39Loads(_, _, _)
Sv39NextLoads(addr, i, r) ==
    IF r.tag # "Ok" THEN 0
    ELSE IF 0 \notin r.val \/ (1 \notin r.val /\ 2 \in r.val) THEN 0
    ELSE IF 1 \in r.val \/ 3 \in r.val THEN 0
    ELSE IF i - 1 < 0 THEN 0
    ELSE Sv39Loads(addr, Shl(get_ppn(r.val), 12, 64), i - 1)

Sv39Loads(addr, root, i) ==
    1 + Sv39NextLoads(addr, i, BusLoad(WrappingAdd(root, Shl(Sv39Vpn(addr, i), 3, 64), 64), 8))

\* MMU::translate; the arm of Sv32, Sv48 and Sv57 is todo!.
translate(access_type, addr) ==
    CASE mmu.addressing_mode = "Bare" -> Ok(addr)
      [] mmu.addressing_mode = "Sv39" -> translate_sv39(access_type, addr)
      [] OTHER -> Panic

\* ------------------------------------------------------------------------
\* The state after construction (RV64Cpu::new and the constructors it calls)
\* ------------------------------------------------------------------------

MACHINE_MODE == 0
SUPERVISOR_MODE == 1
USER_MODE == 2

Regs ==
    0..31

\* Memory::new: an empty byte vector.
MemoryNew ==
    [len |-> {}, data |-> Empty]

\* Clint::new
ClintNew ==
    [mtime |-> {}, mtimecmp |-> {}]

\* MMU::new
MMUNew ==
    [addressing_mode |-> "Bare", physical_page_number |-> {}]

\* RiscvBus::new
BusNew ==
    /\ mem = MemoryNew
    /\ plic = PlicNew
    /\ clint = ClintNew

\* RV64Cpu::new, but for its csr and its bus.
HartNew ==
    /\ pc = {}
    /\ x = Empty
    /\ mode = MACHINE_MODE
    /\ mmu = MMUNew
    /\ status = "created"

\* ------------------------------------------------------------------------
\* uart.rs: the register window behind a mutex and a condition variable, the
\* interrupt flag, and the thread Uart::new spawns
\* ------------------------------------------------------------------------

UART_RHR == 0
UART_THR == 0
UART_LCR == 3
UART_LSR == 5
MASK_UART_LSR_RX == {0}
MASK_UART_LSR_TX == {5}

\* A thread that never waits: its `while` is left out.
ReceiverNeverReady(array) ==
    FALSE

\* The test of the `while` of the thread: a received byte has not been taken yet.
ReceiverReady(array) ==
    BitAnd(Get(array, UART_LSR), MASK_UART_LSR_RX) = Bits(1)

\* Uart::new, with the thread at its read of stdin. input is what stdin will deliver;
\* stored, returned and fresh are history: the bytes the thread has written to the
\* RHR, the bytes a load of the RHR has returned first after such a write, and
\* whether the byte in the RHR has been returned; lsr_stored: a store has written the
\* LSR; raises: how many times the thread has raised the flag.
UartNew(input) ==
    [array |-> Put(Empty, UART_LSR, MASK_UART_LSR_TX), interrupt |-> FALSE,
     lock |-> "free", thread |-> "read", byte |-> {}, stdin |-> input, eofs |-> 0,
     input |-> input, stored |-> <<>>, returned |-> <<>>, fresh |-> FALSE,
     lsr_stored |-> FALSE, raises |-> 0]

\* No Uart has been made: RV64Cpu::new and RiscvBus::new make none.
UartAbsent ==
    [thread |-> "none"]

\* cvar.notify_one(): the thread, if it waits, is woken.
NotifyOne(thread) ==
    IF thread = "wait" THEN "woken" ELSE thread

\* Uart::load past the test of the size, with the lock held.
UartLoadLocked(u, addr) ==
    IF addr = UART_RHR
    THEN [res |-> Ok(Get(u.array, UART_RHR)),
          uart |-> [u EXCEPT !.thread = NotifyOne(u.thread),
                             !.array = Put(u.array, UART_LSR,
                                           BitAnd(Get(u.array, UART_LSR),
                                                  BitNot(MASK_UART_LSR_RX, 8))),
                             !.returned = IF u.fresh
                                          THEN Append(u.returned, Get(u.array, UART_RHR))
                                          ELSE u.returned,
                             !.fresh = FALSE]]
    ELSE [res |-> Ok(Get(u.array, addr)), uart |-> u]

\* Uart::store past the test of the size, with the lock held. The byte a store to the
\* THR prints is not kept.
UartStoreLocked(u, addr, value) ==
    IF addr = UART_THR
    THEN [res |-> Ok({}), uart |-> u]
    ELSE [res |-> Ok({}),
          uart |-> [u EXCEPT !.array = Put(u.array, addr, Trunc(value, 8)),
                             !.lsr_stored = u.lsr_stored \/ addr = UART_LSR]]

\* ------------------------------------------------------------------------
\* SpecCsr: sequences of Csrs::load and Csrs::store on a new CSR file
\* ------------------------------------------------------------------------

\* The number of loads and stores of a run.
MaxCsrOps == 2

\* The addresses the runs use: the three aliases, their targets, the delegation
\* register and one plain slot.
CsrAddrs ==
    {SSTATUS, SIE, SIP, MSTATUS, MIE, MIP, MIDELEG, MSCRATCH}

\* The values the runs store: 0, all ones, and two patterns that mix bits inside and
\* outside MASK_SSTATUS and the interrupt bits (0x0a0a: SSIP MSIP SEIP MEIP, SIE MIE;
\* 0x8_0006_19a8: MIE SPIE MPIE SPP MPP MPRV SUM UXL).
CsrValues ==
    {{}, AllOnes(64), Hex(<<0, 10, 0, 10>>), Hex(<<8, 0, 0, 0, 6, 1, 9, 10, 8>>)}

InitCsr ==
    /\ csrs = CsrsNew
    /\ last = [op |-> "new", n |-> 0]
    /\ HartNew
    /\ BusNew
    /\ build = [overflow_checks |-> FALSE]
    /\ uart = UartAbsent

CsrStoreOp(addr, value) ==
    /\ last.n < MaxCsrOps
    /\ csrs' = CsrsStore(csrs, addr, value)
    /\ last' = [op |-> "store", n |-> last.n + 1, addr |-> addr, value |-> value,
                old |-> csrs]
    /\ UNCHANGED <<pc, x, mode, status, mem, plic, clint, mmu, build, uart>>

CsrLoadOp(addr) ==
    /\ last.n < MaxCsrOps
    /\ last' = [op |-> "load", n |-> last.n + 1, addr |-> addr,
                ret |-> CsrsLoad(csrs, addr), old |-> csrs]
    /\ UNCHANGED <<csrs, pc, x, mode, status, mem, plic, clint, mmu, build, uart>>

NextCsr ==
    \/ \E addr \in CsrAddrs, value \in CsrValues : CsrStoreOp(addr, value)
    \/ \E addr \in CsrAddrs : CsrLoadOp(addr)

SpecCsr ==
    InitCsr /\ [][NextCsr]_vars

\* ------------------------------------------------------------------------
\* SpecBus: loads and stores on the bus of a new machine, in either build
\* ------------------------------------------------------------------------

\* The addresses of the runs: the register of each device and the first and the last
\* byte of the DRAM, and addresses of no region: 0, the addresses after the CLINT's, the
\* PLIC's (0x1000_0000, where a 16550 UART usually sits) and the DRAM's last, and the
\* address before the DRAM's first.
BusAddrs ==
    {{}, CLINT_MTIMECMP, WrappingAdd(CLINT_END, Bits(1), 64),
     WrappingAdd(PLIC_BASE, Hex(<<2, 0, 1, 0, 0, 0>>), 64), WrappingAdd(PLIC_END, Bits(1), 64),
     WrappingSub(DRAM_BASE, Bits(1), 64), DRAM_BASE, DRAM_END,
     WrappingAdd(DRAM_END, Bits(1), 64)}

\* The accesses of the runs, <<address, size in bytes>>: 1, 4 and 8 bytes at each
\* address, the 64 that the CLINT asks for at the CLINT's register and at 0x1000_0000,
\* and 2 bytes at the last byte of the DRAM.
BusAccesses ==
    (BusAddrs \X {1, 4, 8})
    \cup ({CLINT_MTIMECMP, WrappingAdd(PLIC_END, Bits(1), 64)} \X {64})
    \cup {<<DRAM_END, 2>>}

BusData ==
    {Hex(<<12, 10, 15, 14>>)}

InitBus ==
    /\ BusNew
    /\ HartNew
    /\ csrs = CsrsNew
    /\ build \in [overflow_checks : BOOLEAN]
    /\ last = [op |-> "new"]
    /\ uart = UartAbsent

\* RiscvBus::init, called once (by Cpu::init).
BusInitOp ==
    /\ status = "created"
    /\ mem.len = {}
    /\ mem' = MemoryInit(mem, DRAM_SIZE)
    /\ last' = [op |-> "init"]
    /\ UNCHANGED <<csrs, pc, x, mode, status, plic, clint, mmu, build, uart>>

BusLoadOp(addr, size) ==
    /\ status = "created"
    /\ \E r \in {BusLoad(addr, size)} :
          /\ last' = [op |-> "load", addr |-> addr, size |-> size, res |-> r,
                      old |-> [mem |-> mem, plic |-> plic, clint |-> clint]]
          /\ status' = IF r.tag = "Panic" THEN "panicked" ELSE status
    /\ UNCHANGED <<csrs, pc, x, mode, mem, plic, clint, mmu, build, uart>>

BusStoreOp(addr, size, data) ==
    /\ status = "created"
    /\ \E r \in {BusStore(addr, size, data)} :
          /\ last' = [op |-> "store", addr |-> addr, size |-> size, data |-> data,
                      res |-> r.res,
                      old |-> [mem |-> mem, plic |-> plic, clint |-> clint]]
          /\ mem' = r.mem
          /\ plic' = r.plic
          /\ clint' = r.clint
          /\ status' = IF r.res.tag = "Panic" THEN "panicked" ELSE status
    /\ UNCHANGED <<csrs, pc, x, mode, mmu, build, uart>>

\* The address parse_addr takes for enable word w of context c, as test_parse_addr
\* passes it: PLIC_BASE + 0x2000 + 0x80 * c + 4 * w.
EnableAddr(c, w) ==
    WrappingAdd(PLIC_BASE, Bits(INT_ENABLE_BITS_BASE + INT_ENABLE_BITS_STRIDE * c + 4 * w), 64)

\* The enable registers of the runs: word 0 of the contexts 0 and 1.
PlicAddrs ==
    {EnableAddr(0, 0), EnableAddr(1, 0)}

\* Plic::load and Plic::store of 4 bytes, called on the PLIC of the bus with the
\* address parse_addr takes.
PlicLoadOp(addr) ==
    /\ status = "created"
    /\ \E r \in {PlicLoad(plic, addr, 4)} :
          /\ last' = [op |-> "plic_load", addr |-> addr, res |-> r]
          /\ status' = IF r.tag = "Panic" THEN "panicked" ELSE status
    /\ UNCHANGED <<csrs, pc, x, mode, mem, plic, clint, mmu, build, uart>>

PlicStoreOp(addr, value) ==
    /\ status = "created"
    /\ \E r \in {PlicStore(plic, addr, 4, value)} :
          /\ last' = [op |-> "plic_store", addr |-> addr, data |-> value, res |-> r.res]
          /\ plic' = r.plic
          /\ status' = IF r.res.tag = "Panic" THEN "panicked" ELSE status
    /\ UNCHANGED <<csrs, pc, x, mode, mem, clint, mmu, build, uart>>

NextBus ==
    \/ BusInitOp
    \/ \E a \in BusAccesses : BusLoadOp(a[1], a[2])
    \/ \E a \in BusAccesses, data \in BusData : BusStoreOp(a[1], a[2], data)
    \/ \E addr \in PlicAddrs : PlicLoadOp(addr)
    \/ \E addr \in PlicAddrs, data \in BusData : PlicStoreOp(addr, data)

SpecBus ==
    InitBus /\ [][NextBus]_vars


\* ------------------------------------------------------------------------
\* decode.rs: decode_compressed, the arms of C.ADDI4SPN, C.LI, C.JR, C.MV, C.EBREAK,
\* C.JALR and C.ADD
\* ------------------------------------------------------------------------

c_funct3(bits) ==
    Field(bits, 13, 3)

c_rd(bits) ==
    Field(bits, 7, 5)

c_rs1(bits) ==
    c_rd(bits)

c_rs2(bits) ==
    Field(bits, 2, 5)

c_rds(bits) ==
    Field(bits, 2, 3) + 8

\* ci_imm with bit 12 moved to bit 5 and no further: the immediate is not sign-extended.
ci_imm_unsigned(bits) ==
    BitOr(Shr(BitAnd(bits, {12}), 7), Shr(BitAnd(bits, 2..6), 2))

\* ci_imm: bit 12 is shifted left to bit 31 and arithmetically right to bit 5.
ci_imm(bits) ==
    BitOr(Sar(Shl(BitAnd(bits, {12}), 19, 32), 26, 32), Shr(BitAnd(bits, 2..6), 2))

\* ci_addi16sp_imm: bit 12 is shifted left to bit 31 and arithmetically right to bit 9.
ci_addi16sp_imm(bits) ==
    BitOr(BitOr(Sar(Shl(BitAnd(bits, {12}), 19, 32), 22, 32), Shl(BitAnd(bits, 3..4), 4, 32)),
          BitOr(BitOr(Shl(BitAnd(bits, {5}), 1, 32), Shl(BitAnd(bits, {2}), 3, 32)),
                Shr(BitAnd(bits, {6}), 2)))

ciw_imm(bits) ==
    BitOr(BitOr(Shr(BitAnd(bits, 7..10), 1), Shr(BitAnd(bits, 11..12), 7)),
          BitOr(Shr(BitAnd(bits, {5}), 2), Shr(BitAnd(bits, {6}), 4)))

\* An arm of decode_compressed that is not modelled.
Compressed ==
    Inst("Compressed", 0, 0, 0, {}, 0)

\* Quadrant 00: funct3 000 is C.ADDI4SPN (addi rd', x2, imm), illegal when the
\* immediate is 0.
DecodeQuadrant0(bits) ==
    IF c_funct3(bits) = 0
    THEN IF ciw_imm(bits) = {} THEN Illegal
         ELSE Inst("Addi", c_rds(bits), 2, 0, ciw_imm(bits), 0)
    ELSE Compressed

\* Quadrant 01: funct3 010 is C.LI (addi rd, x0, imm); funct3 011 is C.ADDI16SP for
\* rd = 2 (addi x2, x2, imm, illegal when the immediate is 0) and C.LUI otherwise
\* (lui rd, ci_imm << 12).
DecodeQuadrant1(bits) ==
    IF c_funct3(bits) = 2
    THEN Inst("Addi", c_rd(bits), 0, 0, ci_imm(bits), 0)
    ELSE IF c_funct3(bits) = 3
    THEN IF c_rd(bits) = 2
         THEN IF ci_addi16sp_imm(bits) = {} THEN Illegal
              ELSE Inst("Addi", 2, 2, 0, ci_addi16sp_imm(bits), 0)
         ELSE Inst("Lui", c_rd(bits), 0, 0, Shl(ci_imm(bits), 12, 32), 0)
    ELSE Compressed

\* Quadrant 10, funct3 100 with bit 12 clear: C.JR (jalr x0, rs1, 0; rs1 = 0 is
\* reserved) and C.MV (add rd, x0, rs2).
DecodeJrMv(bits) ==
    IF c_rs2(bits) = 0
    THEN IF c_rs1(bits) = 0 THEN Illegal
         ELSE Inst("Jalr", 0, c_rs1(bits), 0, {}, 0)
    ELSE Inst("Add", c_rd(bits), 0, c_rs2(bits), {}, 0)

\* Quadrant 10, funct3 100 with bit 12 set: C.EBREAK, C.JALR (jalr x1, rs1, 0) and
\* C.ADD (add rd, rd, rs2).
DecodeJalrAdd(bits) ==
    IF c_rs1(bits) = 0 THEN Inst("Ebreak", 0, 0, 0, {}, 0)
    ELSE IF c_rs2(bits) = 0 THEN Inst("Jalr", 1, c_rs1(bits), 0, {}, 0)
    ELSE Inst("Add", c_rd(bits), c_rd(bits), c_rs2(bits), {}, 0)

DecodeQuadrant2(bits) ==
    IF c_funct3(bits) = 4
    THEN IF 12 \in bits THEN DecodeJalrAdd(bits) ELSE DecodeJrMv(bits)
    ELSE Compressed

\* decode_compressed of a 16-bit parcel (its two low bits are not 11).
decode_compressed(bits) ==
    CASE Trunc(bits, 2) = {} -> DecodeQuadrant0(bits)
      [] Trunc(bits, 2) = {0} -> DecodeQuadrant1(bits)
      [] Trunc(bits, 2) = {1} -> DecodeQuadrant2(bits)

\* ------------------------------------------------------------------------
\* SpecDecode: decode applied to instruction words
\* ------------------------------------------------------------------------

\* The word with an opcode, rd, funct3, rs1 and bits 31..20 (of I-type: the immediate;
\* of R-type: funct7 and rs2; of a CSR instruction: the CSR address).
EncI(opcode, d, f3, s1, imm12) ==
    Bits(opcode) \cup Shl(Bits(d), 7, 32) \cup Shl(Bits(f3), 12, 32)
    \cup Shl(Bits(s1), 15, 32) \cup Shl(Bits(imm12), 20, 32)

\* CSR addresses of the words: writable ones (sstatus, mstatus, 0x7FF, 0xBFF) and
\* read-only ones (cycle 0xC00, 0xD01, mhartid 0xF14, 0xFFF).
DecodeCsrAddrs ==
    {256, 768, 2047, 3071, 3072, 3329, 3860, 4095}

\* SYSTEM words: every funct3, with rs1 / uimm zero and non-zero.
SystemWords ==
    {EncI(115, d, f3, s1, c) : d \in {0, 5}, f3 \in 0..7, s1 \in {0, 1, 31},
                               c \in DecodeCsrAddrs \cup {0, 1, 258, 261, 288}}

\* Words of the other opcodes, every funct3, with bits 31..20 that are small, a shift
\* amount with bit 10, funct7 = 1 and 32, and negative.
OtherWords ==
    {EncI(opcode, 5, f3, 1, imm12) :
        opcode \in {3, 7, 15, 19, 23, 27, 35, 51, 55, 59, 99, 103, 111, 31, 18},
        f3 \in 0..7, imm12 \in {3, 34, 63, 64, 1029, 1088, 2047, 4095}}

InitDecode ==
    /\ csrs = CsrsNew
    /\ HartNew
    /\ BusNew
    /\ build = [overflow_checks |-> FALSE]
    /\ last = [op |-> "new"]
    /\ uart = UartAbsent

\* decode(bits), once in a run.
DecodeOp(bits) ==
    /\ last.op = "new"
    /\ last' = [op |-> "decode", bits |-> bits, inst |-> decode(bits)]
    /\ UNCHANGED <<csrs, pc, x, mode, status, mem, plic, clint, mmu, build, uart>>

\* A 16-bit parcel of a quadrant from its funct3, bit 12, bits 11..7 and bits 6..2.
EncC(quadrant, f3, b12, hi, lo) ==
    Bits(quadrant + 4 * lo + 128 * hi + 4096 * b12 + 8192 * f3)

\* Parcels of the three quadrants: every funct3, bit 12 clear and set, both 5-bit
\* fields 0, small (x2 among them) and with their high bit set. The all-zero parcel is
\* one of them.
Parcels ==
    {EncC(q, f3, b12, hi, lo) :
        q \in 0..2, f3 \in 0..7, b12 \in {0, 1}, hi \in {0, 1, 2, 5, 31}, lo \in {0, 1, 16, 31}}

\* decode_compressed(bits), once in a run.
DecodeCompressedOp(bits) ==
    /\ last.op = "new"
    /\ last' = [op |-> "decode_compressed", bits |-> bits, inst |-> decode_compressed(bits)]
    /\ UNCHANGED <<csrs, pc, x, mode, status, mem, plic, clint, mmu, build, uart>>

NextDecode ==
    \/ \E bits \in SystemWords \cup OtherWords : DecodeOp(bits)
    \/ \E bits \in Parcels : DecodeCompressedOp(bits)

SpecDecode ==
    InitDecode /\ [][NextDecode]_vars


\* ------------------------------------------------------------------------
\* SpecMmu: page tables stored through the bus, MMU::set_ppn and MMU::translate
\* ------------------------------------------------------------------------

\* The flags D | A | X | W | R | V of a leaf entry.
LeafFlags ==
    {0, 1, 2, 3, 6, 7}

\* The flags A | R | V of a leaf entry that permits loads only.
ReadOnlyFlags ==
    {0, 1, 6}

\* The entry with the flags and the physical page number ppn.
Pte(ppn, flags) ==
    Shl(ppn, 10, 64) \cup flags

\* The stores that build page tables at the start of the DRAM, <<address, size, data>>:
\* at the root (0x8000_0000, entry 0) a pointer to the table at 0x8000_1000 or a leaf
\* of 1 GiB; there (entry 0) a pointer to the table at 0x8000_2000 or a leaf of 2 MiB at
\* 0x8020_0000; there (entry 1, for VA 0x1000) the leaf of the page 0x8010_0000; the
\* byte 0xAB at 0x8010_0000; and at the root a leaf that permits loads only.
MmuStores ==
    {<<DRAM_BASE, 8, Pte(Hex(<<8, 0, 0, 0, 1>>), {0})>>,
     <<DRAM_BASE, 8, Pte(Hex(<<8, 0, 0, 0, 0>>), LeafFlags)>>,
     <<Hex(<<8, 0, 0, 0, 1, 0, 0, 0>>), 8, Pte(Hex(<<8, 0, 0, 0, 2>>), {0})>>,
     <<Hex(<<8, 0, 0, 0, 1, 0, 0, 0>>), 8, Pte(Hex(<<8, 0, 2, 0, 0>>), LeafFlags)>>,
     <<Hex(<<8, 0, 0, 0, 2, 0, 0, 8>>), 8, Pte(Hex(<<8, 0, 1, 0, 0>>), LeafFlags)>>,
     <<Hex(<<8, 0, 1, 0, 0, 0, 0, 0>>), 1, Hex(<<10, 11>>)>>,
     <<DRAM_BASE, 8, Pte(Hex(<<8, 0, 0, 0, 0>>), ReadOnlyFlags)>>}

\* satp values: the root at 0x8000_0000 with MODE = 8 (Sv39) and with MODE = 0 (Bare),
\* and MODE = 8 with the root at 0, where the bus has nothing.
SatpValues ==
    {{63} \cup Hex(<<8, 0, 0, 0, 0>>), Hex(<<8, 0, 0, 0, 0>>), {63}}

MmuAddrs ==
    {Hex(<<1, 0, 0, 0>>), Hex(<<1, 2, 3, 4>>)}

AccessTypes ==
    {"Load", "Store", "Instruction"}

\* RV64Cpu::new and RV64Cpu::init: the DRAM is allocated. last.satp is the value last
\* given to set_ppn.
InitMmu ==
    /\ csrs = CsrsNew
    /\ HartNew
    /\ mem = MemoryInit(MemoryNew, DRAM_SIZE)
    /\ plic = PlicNew
    /\ clint = ClintNew
    /\ build \in [overflow_checks : BOOLEAN]
    /\ last = [op |-> "init", satp |-> {}]
    /\ uart = UartAbsent

MmuStoreOp(addr, size, data) ==
    /\ \E r \in {BusStore(addr, size, data)} :
          /\ r.res.tag = "Ok"
          /\ mem' = r.mem
          /\ plic' = r.plic
          /\ clint' = r.clint
    /\ last' = [op |-> "store", satp |-> last.satp, addr |-> addr]
    /\ UNCHANGED <<csrs, pc, x, mode, status, mmu, build, uart>>

MmuSetPpnOp(satp) ==
    /\ mmu' = set_ppn(mmu, satp)
    /\ last' = [op |-> "set_ppn", satp |-> satp]
    /\ UNCHANGED <<csrs, pc, x, mode, status, mem, plic, clint, build, uart>>

MmuTranslateOp(access_type, addr) ==
    /\ last' = [op |-> "translate", satp |-> last.satp, access_type |-> access_type,
                addr |-> addr, res |-> translate(access_type, addr)]
    /\ UNCHANGED <<csrs, pc, x, mode, status, mem, plic, clint, mmu, build, uart>>

NextMmu ==
    \/ \E st \in MmuStores : MmuStoreOp(st[1], st[2], st[3])
    \/ \E satp \in SatpValues : MmuSetPpnOp(satp)
    \/ \E access_type \in AccessTypes, addr \in MmuAddrs : MmuTranslateOp(access_type, addr)

SpecMmu ==
    InitMmu /\ [][NextMmu]_vars


\* ------------------------------------------------------------------------
\* SpecWalk: MMU::translate_sv39 applied to the tables stored through the bus
\* ------------------------------------------------------------------------

\* The stores that build the tables the walk of VA 0x1000 visits, <<address, size,
\* data>>: at the root (0x8000_0000, entry 0) a pointer to the table at 0x8000_1000, an
\* entry with R but without V, or an entry with W but without R; there (entry 0) a
\* pointer to the table at 0x8000_2000 or an entry with W but without R; there
\* (entry 1) a pointer to the table at 0x8000_3000 or the leaf of the page 0x8010_0000.
\* What is not stored is 0, an entry without V.
WalkStores ==
    {<<DRAM_BASE, 8, Pte(Hex(<<8, 0, 0, 0, 1>>), {0})>>,
     <<DRAM_BASE, 8, Pte(Hex(<<8, 0, 0, 0, 1>>), {1})>>,
     <<DRAM_BASE, 8, Pte(Hex(<<8, 0, 0, 0, 1>>), {0, 2})>>,
     <<Hex(<<8, 0, 0, 0, 1, 0, 0, 0>>), 8, Pte(Hex(<<8, 0, 0, 0, 2>>), {0})>>,
     <<Hex(<<8, 0, 0, 0, 1, 0, 0, 0>>), 8, Pte(Hex(<<8, 0, 0, 0, 2>>), {0, 2})>>,
     <<Hex(<<8, 0, 0, 0, 2, 0, 0, 8>>), 8, Pte(Hex(<<8, 0, 0, 0, 3>>), {0})>>,
     <<Hex(<<8, 0, 0, 0, 2, 0, 0, 8>>), 8, Pte(Hex(<<8, 0, 1, 0, 0>>), LeafFlags)>>}

\* satp values: the root at 0x8000_0000, at 0x8000_1000, and at 0 where the bus has
\* nothing, each with MODE = 8.
WalkSatps ==
    {{63} \cup Hex(<<8, 0, 0, 0, 0>>), {63} \cup Hex(<<8, 0, 0, 0, 1>>), {63}}

WalkStoreOp(addr, size, data) ==
    /\ \E r \in {BusStore(addr, size, data)} :
          /\ r.res.tag = "Ok"
          /\ mem' = r.mem
          /\ plic' = r.plic
          /\ clint' = r.clint
    /\ last' = [op |-> "store"]
    /\ UNCHANGED <<csrs, pc, x, mode, status, mmu, build, uart>>

WalkSetPpnOp(satp) ==
    /\ mmu' = set_ppn(mmu, satp)
    /\ last' = [op |-> "set_ppn"]
    /\ UNCHANGED <<csrs, pc, x, mode, status, mem, plic, clint, build, uart>>

\* translate_sv39, as the Sv39 arm of translate calls it; loads counts its bus loads.
WalkOp(access_type, addr) ==
    /\ last' = [op |-> "walk", access_type |-> access_type, addr |-> addr,
                res |-> translate_sv39(access_type, addr),
                loads |-> Sv39Loads(addr, Shl(mmu.physical_page_number, 12, 64), 2)]
    /\ UNCHANGED <<csrs, pc, x, mode, status, mem, plic, clint, mmu, build, uart>>

NextWalk ==
    \/ \E st \in WalkStores : WalkStoreOp(st[1], st[2], st[3])
    \/ \E satp \in WalkSatps : WalkSetPpnOp(satp)
    \/ \E access_type \in AccessTypes : WalkOp(access_type, Hex(<<1, 2, 3, 4>>))

SpecWalk ==
    InitMmu /\ [][NextWalk]_vars


\* ------------------------------------------------------------------------
\* cpu.rs: fetch and the arms of execute
\* ------------------------------------------------------------------------

\* addr_add: addr plus the i32 offset. `+` and `-` panic on overflow in a build with
\* overflow checks and wrap in one without.
addr_add(addr, offset) ==
    IF 31 \in offset
    THEN IF SubUnderflows(addr, WrappingNeg(offset, 32)) /\ OverflowChecks THEN Panic
         ELSE Ok(WrappingSub(addr, WrappingNeg(offset, 32), 64))
    ELSE IF AddOverflows(addr, offset) /\ OverflowChecks THEN Panic
         ELSE Ok(WrappingAdd(addr, offset, 64))

\* What fetch gives: the instruction and its length in bytes (tag "Ok"), the
\* exception of the first bus load (tag "Err"), or a panic.
Fetched(tag, inst, len) ==
    [tag |-> tag, inst |-> inst, len |-> len]

\* fetch, the full-length arm: r is bus.load(addr, 4), unwrapped.
FetchFull(r) ==
    IF r.tag # "Ok" THEN Fetched("Panic", Illegal, 0)
    ELSE Fetched("Ok", decode(Trunc(r.val, 32)), 4)

\* fetch, the compact arm: r is bus.load(addr, 2), unwrapped.
FetchCompact(r) ==
    IF r.tag # "Ok" THEN Fetched("Panic", Illegal, 0)
    ELSE Fetched("Ok", decode_compressed(Trunc(r.val, 16)), 2)

\* fetch after the translation: b is bus.load(addr, 1).
FetchAt(addr, b) ==
    CASE b.tag = "Err" -> Fetched("Err", Illegal, 0)
      [] b.tag = "Panic" -> Fetched("Panic", Illegal, 0)
      [] OTHER -> IF {0, 1} \subseteq b.val THEN FetchFull(BusLoad(addr, 4))
                  ELSE FetchCompact(BusLoad(addr, 2))

\* RV64Cpu::fetch: t is the translation of the pc, which `expect` unwraps.
fetch(t) ==
    IF t.tag # "Ok" THEN Fetched("Panic", Illegal, 0)
    ELSE FetchAt(t.val, BusLoad(t.val, 1))

\* How an arm of execute's match leaves the hart: tag is "Next" (the pc then advances
\* by the instruction's length), "Continue" (the arm has set the pc), "Break",
\* "Panic", or "Unmodelled" for the instructions whose arms are not modelled.
Outcome(tag, regs, newpc, c, m) ==
    [tag |-> tag, x |-> regs, pc |-> newpc, csrs |-> c, mem |-> m]

Unchanged(tag) ==
    Outcome(tag, x, pc, csrs, mem)

\* self.x[rd as usize] = v
SetRd(i, v) ==
    Outcome("Next", Put(x, i.rd, v), pc, csrs, mem)

LoadOps ==
    {"Lb", "Lh", "Lw", "Ld", "Lbu", "Lhu", "Lwu"}

LoadSize(op) ==
    CASE op \in {"Lb", "Lbu"} -> 1
      [] op \in {"Lh", "Lhu"} -> 2
      [] op \in {"Lw", "Lwu"} -> 4
      [] OTHER -> 8

\* The cast of the loaded value: `as i8 as u64`, `as i16 as u64`, `as i32 as u64`, or
\* `as u64`.
LoadCast(op, v) ==
    CASE op = "Lb" -> SExt(v, 8, 64)
      [] op = "Lh" -> SExt(v, 16, 64)
      [] op = "Lw" -> SExt(v, 32, 64)
      [] OTHER -> v

\* r is the result of the bus load, which `expect` unwraps.
LoadDone(i, r) ==
    IF r.tag # "Ok" THEN Unchanged("Panic") ELSE SetRd(i, LoadCast(i.op, r.val))

\* t is the translation of the address. Ld loads with Bus::load, the others with
\* load_byte, load_half and load_word.
LoadFrom(i, t) ==
    IF t.tag # "Ok" THEN Unchanged("Panic")
    ELSE LoadDone(i, IF i.op = "Ld" THEN BusLoad(t.val, 8)
                     ELSE BusLoadSized(t.val, LoadSize(i.op)))

\* The arms Lb .. Lwu: a is addr_add(x[rs1], imm).
ExecLoad(i, a) ==
    IF a.tag # "Ok" THEN Unchanged("Panic") ELSE LoadFrom(i, translate("Load", a.val))

StoreOps ==
    {"Sb", "Sh", "Sw", "Sd"}

StoreSize(op) ==
    CASE op = "Sb" -> 1
      [] op = "Sh" -> 2
      [] op = "Sw" -> 4
      [] OTHER -> 8

\* r is the result of store_byte .. store_double, which `expect` unwraps.
StoreDone(r) ==
    IF r.res.tag # "Ok" THEN Unchanged("Panic") ELSE Outcome("Next", x, pc, csrs, r.mem)

\* The arms Sb .. Sd: t is the translation of x[rs1].wrapping_add(imm as u64).
ExecStore(i, t) ==
    IF t.tag # "Ok" THEN Unchanged("Panic")
    ELSE StoreDone(BusStoreSized(t.val, StoreSize(i.op),
                                 Trunc(Get(x, i.rs2), 8 * StoreSize(i.op))))

ImmOps ==
    {"Addi", "Slli", "Slti", "Sltiu", "Xori", "Srli", "Srai", "Ori", "Andi",
     "Addiw", "Slliw", "Srliw", "Sraiw"}

\* The value the arms Addi .. Sraiw assign to x[rd]: a is x[rs1], imm is `imm as u64`.
\* wrapping_shl and wrapping_shr take the shift amount modulo the width.
AluImm(op, a, imm) ==
    CASE op = "Addi" -> WrappingAdd(a, imm, 64)
      [] op = "Slli" -> Shl(a, ToNat(Trunc(imm, 6)), 64)
      [] op = "Slti" -> IF SLt(a, imm, 64) THEN {0} ELSE {}
      [] op = "Sltiu" -> IF ULt(a, imm) THEN {0} ELSE {}
      [] op = "Xori" -> BitXor(a, imm)
      [] op = "Srli" -> Shr(a, ToNat(Trunc(imm, 6)))
      [] op = "Srai" -> Sar(a, ToNat(Trunc(imm, 6)), 64)
      [] op = "Ori" -> BitOr(a, imm)
      [] op = "Andi" -> BitAnd(a, imm)
      [] op = "Addiw" -> Trunc(WrappingAdd(a, imm, 64), 32)
      [] op = "Slliw" -> Shl(Trunc(a, 32), ToNat(Trunc(imm, 5)), 32)
      [] op = "Srliw" -> Shr(Trunc(a, 32), ToNat(Trunc(imm, 5)))
      [] op = "Sraiw" -> SExt(Sar(Trunc(a, 32), ToNat(Trunc(imm, 5)), 32), 32, 64)

RegOps ==
    {"Add", "Sub", "Sll", "Slt", "Sltu", "Xor", "Srl", "Sra", "Or", "And",
     "Addw", "Subw", "Sllw", "Srlw", "Sraw"}

\* The value the arms Addw .. Sraw and Add .. And assign to x[rd]: a is x[rs1], b is
\* x[rs2].
AluReg(op, a, b) ==
    CASE op = "Add" -> WrappingAdd(a, b, 64)
      [] op = "Sub" -> WrappingSub(a, b, 64)
      [] op = "Sll" -> Shl(a, ToNat(Trunc(b, 6)), 64)
      [] op = "Slt" -> IF SLt(a, b, 64) THEN {0} ELSE {}
      [] op = "Sltu" -> IF ULt(a, b) THEN {0} ELSE {}
      [] op = "Xor" -> BitXor(a, b)
      [] op = "Srl" -> Shr(a, ToNat(Trunc(b, 6)))
      [] op = "Sra" -> Sar(a, ToNat(Trunc(b, 6)), 64)
      [] op = "Or" -> BitOr(a, b)
      [] op = "And" -> BitAnd(a, b)
      [] op = "Addw" -> Trunc(WrappingAdd(a, b, 64), 32)
      [] op = "Subw" -> Trunc(WrappingSub(a, b, 64), 32)
      [] op = "Sllw" -> Shl(Trunc(a, 32), ToNat(Trunc(b, 5)), 32)
      [] op = "Srlw" -> Shr(Trunc(a, 32), ToNat(Trunc(b, 5)))
      [] op = "Sraw" -> SExt(Sar(Trunc(a, 32), ToNat(Trunc(b, 5)), 32), 32, 64)

MulOps ==
    {"Mul", "Mulh", "Mulhsu", "Mulhu", "Mulw"}

\* The arms Mul .. Mulhu and Mulw with an addition in the place of the multiplication
\* of Mulw.
MultiplyWordAdds(op, a, b) ==
    CASE op = "Mul" -> WrappingMul(a, b, 64)
      [] op = "Mulh" -> Sar(WrappingMul(a, b, 64), 32, 64)
      [] op = "Mulhsu" -> Sar(WrappingMul(a, b, 64), 32, 64)
      [] op = "Mulhu" -> Shr(WrappingMul(a, b, 64), 32)
      [] op = "Mulw" -> SExt(WrappingAdd(a, b, 32), 32, 64)

\* The value the arms Mul .. Mulhu and Mulw assign to x[rd]. The three high
\* multiplications shift the wrapped 64-bit product right by 32.
Multiply(op, a, b) ==
    CASE op = "Mul" -> WrappingMul(a, b, 64)
      [] op = "Mulh" -> Sar(WrappingMul(a, b, 64), 32, 64)
      [] op = "Mulhsu" -> Sar(WrappingMul(a, b, 64), 32, 64)
      [] op = "Mulhu" -> Shr(WrappingMul(a, b, 64), 32)
      [] op = "Mulw" -> SExt(WrappingMul(a, b, 32), 32, 64)

DivOps ==
    {"Div", "Divu", "Rem", "Remu"}

\* The arms Div, Divu, Rem and Remu with the test of a zero divisor left out of Div
\* and Rem: the divisor 0 gives the quotient 0 and the remainder 0.
DivideUnguarded(op, a, b) ==
    CASE op = "Div" -> IF b = {} THEN {} ELSE SignedWrappingDiv(a, b, 64)
      [] op = "Divu" -> IF b = {} THEN AllOnes(64) ELSE UDivMod(a, b, 64).q
      [] op = "Rem" -> IF b = {} THEN {} ELSE SignedWrappingRem(a, b, 64)
      [] op = "Remu" -> IF b = {} THEN a ELSE UDivMod(a, b, 64).r

\* The value the arms Div, Divu, Rem and Remu assign to x[rd].
Divide(op, a, b) ==
    CASE op = "Div" -> IF b = {} THEN AllOnes(64) ELSE SignedWrappingDiv(a, b, 64)
      [] op = "Divu" -> IF b = {} THEN AllOnes(64) ELSE UDivMod(a, b, 64).q
      [] op = "Rem" -> IF b = {} THEN a ELSE SignedWrappingRem(a, b, 64)
      [] op = "Remu" -> IF b = {} THEN a ELSE UDivMod(a, b, 64).r

DivWOps ==
    {"Divw", "Divuw", "Remw", "Remuw"}

\* The value the arms Divw, Divuw, Remw and Remuw assign to x[rd]: a and b are the
\* low 32 bits of x[rs1] and x[rs2].
DivideW(op, a, b) ==
    CASE op = "Divw" -> IF b = {} THEN AllOnes(64)
                        ELSE SExt(SignedWrappingDiv(a, b, 32), 32, 64)
      [] op = "Divuw" -> IF b = {} THEN AllOnes(64) ELSE UDivMod(a, b, 32).q
      [] op = "Remw" -> IF b = {} THEN SExt(a, 32, 64)
                        ELSE SExt(SignedWrappingRem(a, b, 32), 32, 64)
      [] op = "Remuw" -> IF b = {} THEN a ELSE UDivMod(a, b, 32).r

BranchOps ==
    {"Beq", "Bne", "Blt", "Bge", "Bltu", "Bgeu"}

\* The condition of a branch arm: a is x[rs1], b is x[rs2].
BranchTaken(op, a, b) ==
    CASE op = "Beq" -> a = b
      [] op = "Bne" -> a # b
      [] op = "Blt" -> SLt(a, b, 64)
      [] op = "Bge" -> ~SLt(a, b, 64)
      [] op = "Bltu" -> ULt(a, b)
      [] op = "Bgeu" -> ~ULt(a, b)

\* The arms Beq .. Bgeu
ExecBranch(i) ==
    IF BranchTaken(i.op, Get(x, i.rs1), Get(x, i.rs2))
    THEN Outcome("Continue", x, WrappingAdd(pc, SExt(i.imm, 32, 64), 64), csrs, mem)
    ELSE Unchanged("Next")

\* The arms Jalr and Jal: x[rd] = pc + 4, then the pc is the target.
ExecJump(i, target) ==
    IF AddOverflows(pc, {2}) /\ OverflowChecks THEN Unchanged("Panic")
    ELSE Outcome("Continue", Put(x, i.rd, WrappingAdd(pc, {2}, 64)), target, csrs, mem)

CsrRegOps ==
    {"Csrrw", "Csrrs", "Csrrc"}

CsrImmOps ==
    {"Csrrwi", "Csrrsi", "Csrrci"}

\* The value a CSR arm stores: t is the value loaded, src is x[rs1] or the immediate.
CsrNewValue(op, t, src) ==
    CASE op \in {"Csrrw", "Csrrwi"} -> src
      [] op \in {"Csrrs", "Csrrsi"} -> BitOr(t, src)
      [] op \in {"Csrrc", "Csrrci"} -> BitAnd(t, BitNot(src, 64))

\* The arms Csrrw .. Csrrci: load, store, then x[rd] = t.
ExecCsr(i, t, src) ==
    Outcome("Next", Put(x, i.rd, t), pc,
            CsrsStore(csrs, i.csr, CsrNewValue(i.op, t, src)), mem)

\* RiscvInst::min_prv_level (`csr.min_prv_level()` read as csr_min_prv_level(csr)).
min_prv_level(i) ==
    CASE i.op \in CsrRegOps \cup CsrImmOps -> csr_min_prv_level(i.csr)
      [] i.op = "Mret" -> 3
      [] i.op \in {"Sret", "Wfi", "SfenceVma"} -> 1
      [] OTHER -> 0

\* The arms that are todo!()
TodoOps ==
    {"Ecall", "Ebreak", "Mret", "Sret", "Wfi", "SfenceVma"}

\* The match of execute on the instruction.
ExecuteInst(i) ==
    CASE i.op = "Illegal" -> Unchanged("Break")
      [] i.op \in LoadOps -> ExecLoad(i, addr_add(Get(x, i.rs1), i.imm))
      [] i.op \in {"Fence", "FenceI"} -> Unchanged("Next")
      [] i.op \in ImmOps -> SetRd(i, AluImm(i.op, Get(x, i.rs1), SExt(i.imm, 32, 64)))
      [] i.op = "Auipc" -> SetRd(i, WrappingAdd(pc, Shl(SExt(i.imm, 32, 64), 12, 64), 64))
      [] i.op = "Lui" -> SetRd(i, Shl(SExt(i.imm, 32, 64), 12, 64))
      [] i.op \in StoreOps ->
           ExecStore(i, translate("Store",
                                  WrappingAdd(Get(x, i.rs1), SExt(i.imm, 32, 64), 64)))
      [] i.op \in RegOps -> SetRd(i, AluReg(i.op, Get(x, i.rs1), Get(x, i.rs2)))
      [] i.op \in BranchOps -> ExecBranch(i)
      [] i.op = "Jalr" ->
           ExecJump(i, BitAnd(WrappingAdd(Get(x, i.rs1), SExt(i.imm, 32, 64), 64),
                              BitNot({0}, 64)))
      [] i.op = "Jal" -> ExecJump(i, WrappingAdd(pc, SExt(i.imm, 32, 64), 64))
      [] i.op \in TodoOps -> Unchanged("Panic")
      [] i.op \in CsrRegOps -> ExecCsr(i, CsrsLoad(csrs, i.csr), Get(x, i.rs1))
      [] i.op \in CsrImmOps -> ExecCsr(i, CsrsLoad(csrs, i.csr), i.imm)
      [] i.op \in MulOps -> SetRd(i, Multiply(i.op, Get(x, i.rs1), Get(x, i.rs2)))
      [] i.op \in DivOps -> SetRd(i, Divide(i.op, Get(x, i.rs1), Get(x, i.rs2)))
      [] i.op \in DivWOps ->
           SetRd(i, DivideW(i.op, Trunc(Get(x, i.rs1), 32), Trunc(Get(x, i.rs2), 32)))
      [] OTHER -> Unchanged("Unmodelled")

\* The end of an iteration of execute's loop: `self.pc += 4` or 2 after an arm that
\* falls through, and `self.x[0] = 0` after the loop.
EndIteration(o, len) ==
    CASE o.tag = "Next" ->
           IF AddOverflows(o.pc, Bits(len)) /\ OverflowChecks THEN [o EXCEPT !.tag = "Panic"]
           ELSE [o EXCEPT !.pc = WrappingAdd(o.pc, Bits(len), 64)]
      [] o.tag = "Break" -> [o EXCEPT !.x = Put(o.x, 0, {})]
      [] OTHER -> o

\* One iteration of execute's loop: f is what fetch gives. An exception of fetch is
\* printed and ends the loop.
Iteration(f) ==
    CASE f.tag = "Ok" -> EndIteration(ExecuteInst(f.inst), f.len)
      [] f.tag = "Err" -> EndIteration(Unchanged("Break"), 0)
      [] OTHER -> Unchanged("Panic")

\* Where the hart is after an iteration.
StatusAfter(tag) ==
    CASE tag \in {"Next", "Continue"} -> "running"
      [] tag = "Break" -> "halted"
      [] tag = "Panic" -> "panicked"
      [] OTHER -> "unmodelled"

\* ------------------------------------------------------------------------
\* Spec: a harness in the manner of test_exec (new, init, the fields assigned, load)
\* and then execute, one iteration of its loop at a time, in either build
\* ------------------------------------------------------------------------

\* The word of an R-type instruction.
EncR(opcode, d, f3, s1, s2, f7) ==
    EncI(opcode, d, f3, s1, 32 * f7 + s2)

\* 0x0000001f, the word that ends test_exec's program: decode gives Illegal.
EndWord ==
    Hex(<<1, 15>>)

\* A run of the harness: the pc, the registers and the mode it assigns, and the words
\* of the program it loads at 0x8000_0000.
Run(regs, m, prog) ==
    [pc |-> DRAM_BASE, x |-> regs, mode |-> m, prog |-> prog]

\* Register values: 0, 3, -1, i64::MIN and i32::MAX.
Operands ==
    {{}, {0, 1}, AllOnes(64), IntMin(64), Width(31)}

\* The registers with x1 = a and x2 = b.
Regs12(a, b) ==
    Put(Put(Empty, 1, a), 2, b)

\* <<funct7, funct3>> of the instructions of OP.
OpFuncts ==
    ({0, 1} \X (0..7)) \cup ({32} \X {0, 5})

\* <<funct7, funct3>> of the instructions of OP-32.
Op32Functs ==
    ({0} \X {0, 1, 5}) \cup ({32} \X {0, 5}) \cup ({1} \X {0, 4, 5, 6, 7})

\* op x3, x1, x2 for every instruction of OP and OP-32 and every pair of operands.
RegRuns ==
    {Run(Regs12(a, b), MACHINE_MODE, <<EncR(51, 3, f[2], 1, 2, f[1]), EndWord>>) :
        a \in Operands, b \in Operands, f \in OpFuncts}
    \cup {Run(Regs12(a, b), MACHINE_MODE, <<EncR(59, 3, f[2], 1, 2, f[1]), EndWord>>) :
            a \in Operands, b \in Operands, f \in Op32Functs}

\* divw, divuw, remw and remuw x3, x1, x2 on 0x8000_0000 and 0x1_0000_0007 divided by 1
\* and by 0x1_0000_0000 (whose low 32 bits are 0).
WordDivRuns ==
    {Run(Regs12(a, b), MACHINE_MODE, <<EncR(59, 3, f3, 1, 2, 1), EndWord>>) :
        a \in {{31}, {0, 1, 2, 32}}, b \in {{0}, {32}}, f3 \in 4..7}

\* op x3, x1, imm for every instruction of OP-IMM and OP-IMM-32, with the immediates
\* 0, 5, 31, -1 and 0x403 (a right shift by 3 that is arithmetic).
ImmRuns ==
    {Run(Regs12(a, {}), MACHINE_MODE, <<EncI(opcode, 3, f3, 1, imm12), EndWord>>) :
        a \in Operands, opcode \in {19, 27}, f3 \in 0..7, imm12 \in {0, 5, 31, 1027, 4095}}

\* mv x5, x0 (addi x5, x0, 0)
MvX5X0 ==
    EncI(19, 5, 0, 0, 0)

\* Programs whose first instruction has rd = x0 and whose second reads x0: addi x0, x0, 5;
\* jal x0, +4; add x0, x1, x2; lui x0, 0x12345; csrrs x0, mstatus, x0; addi x0, x0, 0.
ZeroRuns ==
    {Run(Regs12({0, 1}, {2}), MACHINE_MODE, <<w, MvX5X0, EndWord>>) :
        w \in {EncI(19, 0, 0, 0, 5), Hex(<<4, 0, 0, 0, 6, 15>>), EncR(51, 0, 0, 1, 2, 0),
               Hex(<<1, 2, 3, 4, 5, 0, 3, 7>>), EncI(115, 0, 2, 0, MSTATUS),
               EncI(19, 0, 0, 0, 0)}}

\* Base addresses of the loads and stores: in the DRAM (0x8000_0100), its last byte,
\* the CLINT's mtimecmp, and 0, which no device maps.
MemBases ==
    {Hex(<<8, 0, 0, 0, 0, 1, 0, 0>>), DRAM_END, CLINT_MTIMECMP, {}}

\* A store of x2 = 0x8877_6655_c4b3_a291 at 0(x1) and a load of x3 from there: sd and
\* ld, sw and lw, sw and lwu, sh and lh, sh and lhu, sb and lb, sb and lbu; and
\* sd x2, -8(x1) with ld x3, -8(x1).
MemRuns ==
    {Run(Regs12(base, Hex(<<8, 8, 7, 7, 6, 6, 5, 5, 12, 4, 11, 3, 10, 2, 9, 1>>)), MACHINE_MODE,
         <<EncI(35, p[3], p[1], 1, 32 * p[4] + 2), EncI(3, 3, p[2], 1, p[5]), EndWord>>) :
        base \in MemBases,
        p \in {<<3, 3, 0, 0, 0>>, <<2, 2, 0, 0, 0>>, <<2, 6, 0, 0, 0>>, <<1, 1, 0, 0, 0>>,
               <<1, 5, 0, 0, 0>>, <<0, 0, 0, 0, 0>>, <<0, 4, 0, 0, 0>>,
               <<3, 3, 24, 127, 4088>>}}

\* Control transfers, followed by addi x5, x0, 1 twice: the six branches x1, x2, +8;
\* jal x1, +8; jalr x1, 9(x2) with x2 = 0x8000_0000; auipc x5, 1; lui x5, 0x12345
\* and lui x5, 0x80000; fence and fence.i; and the parcels c.jalr x1 (0x9082),
\* c.lui x5, 1 (0x6285) and c.lui x5, -1 (0x72fd).
JumpWords ==
    {EncI(99, 8, f3, 1, 2) : f3 \in {0, 1, 4, 5, 6, 7}}
    \cup {Hex(<<8, 0, 0, 0, 14, 15>>), EncI(103, 1, 0, 2, 9), Hex(<<1, 2, 9, 7>>),
          Hex(<<1, 2, 3, 4, 5, 2, 11, 7>>), Hex(<<8, 0, 0, 0, 0, 2, 11, 7>>),
          EncI(15, 0, 0, 0, 255), EncI(15, 0, 1, 0, 0), Hex(<<9, 0, 8, 2>>),
          EncC(1, 3, 0, 5, 1), EncC(1, 3, 1, 5, 31)}

JumpRuns ==
    {Run(Regs12(a, DRAM_BASE), MACHINE_MODE,
         <<w, EncI(19, 5, 0, 0, 1), EncI(19, 5, 0, 0, 1), EndWord>>) :
        a \in {DRAM_BASE, {0, 1}, AllOnes(64)}, w \in JumpWords}

\* CSR instructions in each mode, with x1 = 0x1880 and x5 = 7: csrrw, csrrs, csrrc
\* x5, csr, x1 and csrrwi, csrrsi, csrrci x5, csr, 9 on mstatus, sstatus, mscratch and
\* mtvec, then csrrs x6, csr, x0.
CsrRuns ==
    {Run(Put(Regs12(Hex(<<1, 8, 8, 0>>), {}), 5, {0, 1, 2}), m,
         <<EncI(115, 5, f3, IF f3 < 4 THEN 1 ELSE 9, c), EncI(115, 6, 2, 0, c), EndWord>>) :
        m \in {MACHINE_MODE, SUPERVISOR_MODE, USER_MODE}, f3 \in {1, 2, 3, 5, 6, 7},
        c \in {MSTATUS, SSTATUS, MSCRATCH, MTVEC}}

\* csrrw x0, mie, x1; csrrw x0, mip, x2; csrrw x0, mideleg, x7; then csrrs or csrrc x6,
\* csr, x0 on sie, sip and sstatus, for mie and mideleg 0 and 0x222 and mip 0 and 0x22.
CsrReadRuns ==
    {Run(Put(Regs12(a, b), 7, d), MACHINE_MODE,
         <<EncI(115, 0, 1, 1, MIE), EncI(115, 0, 1, 2, MIP), EncI(115, 0, 1, 7, MIDELEG),
           EncI(115, 6, f3, 0, c), EndWord>>) :
        a \in {{}, {1, 5, 9}}, b \in {{}, {1, 5}}, d \in {{}, {1, 5, 9}}, f3 \in {2, 3},
        c \in {SIE, SIP, SSTATUS}}

\* Traps in each mode, with x1 = 0x8000_0040: csrrw x0, mtvec, x1 then csrrsi x0,
\* mstatus, 8 (MIE) or csrrci x0, mstatus, 8, then ecall, ebreak, mret, sret, wfi or
\* sfence.vma.
TrapWords ==
    {Hex(<<7, 3>>), Hex(<<1, 0, 0, 0, 7, 3>>), Hex(<<3, 0, 2, 0, 0, 0, 7, 3>>),
     Hex(<<1, 0, 2, 0, 0, 0, 7, 3>>), Hex(<<1, 0, 5, 0, 0, 0, 7, 3>>),
     Hex(<<1, 2, 0, 0, 0, 0, 7, 3>>)}

TrapRuns ==
    {Run(Regs12(Hex(<<8, 0, 0, 0, 0, 0, 4, 0>>), {}), m,
         <<EncI(115, 0, 1, 1, MTVEC), EncI(115, 0, f3, 8, MSTATUS), w, EndWord>>) :
        m \in {MACHINE_MODE, SUPERVISOR_MODE, USER_MODE}, f3 \in {6, 7}, w \in TrapWords}

\* A program of zero bytes only (a parcel 0 is an illegal compressed instruction), one
\* that starts with c.addi4spn x8, sp, 4 (0x0040), and one run from pc = 0, which no
\* device maps.
OtherRuns ==
    {Run(Regs12({}, {3}), MACHINE_MODE, <<{}>>),
     Run(Regs12({}, {3}), MACHINE_MODE, <<{6}, EndWord>>),
     [Run(Empty, MACHINE_MODE, <<EndWord>>) EXCEPT !.pc = {}]}

\* The words of test_exec's program: the factorial function compiled with -O0, and the
\* word 0x0000001f after it, at 0x70.
FactorialWords ==
    <<Hex(<<15, 14, 0, 1, 0, 1, 1, 3>>), Hex(<<1, 1, 3, 12, 2, 3>>),
      Hex(<<8, 1, 3, 8, 2, 3>>), Hex(<<2, 0, 1, 0, 4, 1, 3>>), Hex(<<5, 0, 7, 9, 3>>),
      Hex(<<15, 14, 15, 4, 2, 6, 2, 3>>), Hex(<<15, 14, 12, 4, 2, 7, 8, 3>>),
      Hex(<<7, 8, 7, 1, 11>>), Hex(<<1, 0, 0, 7, 9, 3>>), Hex(<<14, 7, 12, 6, 6, 3>>),
      Hex(<<1, 0, 0, 7, 9, 3>>), Hex(<<3, 0, 0, 0, 0, 6, 15>>),
      Hex(<<15, 14, 12, 4, 2, 7, 8, 3>>), Hex(<<15, 15, 15, 7, 8, 7, 9, 11>>),
      Hex(<<7, 8, 7, 9, 11>>), Hex(<<7, 8, 5, 1, 3>>), Hex(<<9, 7>>),
      Hex(<<15, 12, 0, 0, 8, 0, 14, 7>>), Hex(<<5, 0, 7, 9, 3>>), Hex(<<7, 8, 7, 1, 3>>),
      Hex(<<15, 14, 12, 4, 2, 7, 8, 3>>), Hex(<<2, 14, 7, 8, 7, 11, 11>>),
      Hex(<<7, 8, 7, 9, 11>>), Hex(<<7, 8, 5, 1, 3>>), Hex(<<1, 8, 1, 3, 0, 8, 3>>),
      Hex(<<1, 0, 1, 3, 4, 0, 3>>), Hex(<<2, 0, 1, 0, 1, 1, 3>>), Hex(<<8, 0, 6, 7>>),
      Hex(<<1, 15>>)>>

\* The run of test_exec: ra = 0x8000_0070, sp = 0x8000_0400, a0 = 5.
FactorialRun ==
    Run(Put(Put(Put(Empty, 1, DRAM_BASE \cup Hex(<<7, 0>>)), 2, DRAM_BASE \cup {10}),
            10, Bits(5)),
        MACHINE_MODE, FactorialWords)

Runs ==
    RegRuns \cup ImmRuns \cup ZeroRuns \cup MemRuns \cup JumpRuns \cup CsrRuns
    \cup TrapRuns \cup OtherRuns \cup {FactorialRun} \cup WordDivRuns
    \cup CsrReadRuns

\* The bytes of the program's words, each in little-endian order.
ProgramBytes(words) ==
    [k \in 1..(4 * Len(words)) |->
        Trunc(Shr(words[(k - 1) \div 4 + 1], 8 * ((k - 1) % 4)), 8)]

\* RV64Cpu::new, in a build with or without overflow checks.
Init ==
    /\ csrs = CsrsNew
    /\ HartNew
    /\ BusNew
    /\ build \in [overflow_checks : BOOLEAN]
    /\ last = [op |-> "new"]
    /\ uart = UartAbsent

\* Cpu::init
CpuInit ==
    /\ status = "created"
    /\ mem' = MemoryInit(mem, DRAM_SIZE)
    /\ status' = "initialised"
    /\ last' = [op |-> "init"]
    /\ UNCHANGED <<csrs, pc, x, mode, plic, clint, mmu, build, uart>>

\* The harness assigns the fields of the hart and calls Cpu::load, whose `expect`
\* unwraps the result of RiscvBus::load_data.
CpuLoad(run) ==
    /\ status = "initialised"
    /\ \E r \in {BusLoadData(DRAM_BASE, ProgramBytes(run.prog))} :
          /\ mem' = r.mem
          /\ status' = IF r.res.tag = "Ok" THEN "loaded" ELSE "panicked"
    /\ pc' = run.pc
    /\ x' = run.x
    /\ mode' = run.mode
    /\ last' = [op |-> "load"]
    /\ UNCHANGED <<csrs, plic, clint, mmu, build, uart>>

\* One iteration of the loop of Cpu::execute. last keeps the instruction, the result
\* of the iteration and the hart before it.
Step ==
    /\ status \in {"loaded", "running"}
    /\ \E f \in {fetch(translate("Instruction", pc))} :
          \E o \in {Iteration(f)} :
             /\ x' = o.x
             /\ pc' = o.pc
             /\ csrs' = o.csrs
             /\ mem' = o.mem
             /\ status' = StatusAfter(o.tag)
             /\ last' = [op |-> "step", inst |-> f.inst, fetched |-> f.tag, tag |-> o.tag,
                         pc |-> pc, x |-> x, csrs |-> csrs, mode |-> mode, len |-> f.len]
    /\ UNCHANGED <<mode, plic, clint, mmu, build, uart>>

Next ==
    \/ CpuInit
    \/ \E run \in Runs : CpuLoad(run)
    \/ Step

Spec ==
    Init /\ [][Next]_vars

\* The harness of test_exec alone: new, init, the fields and the program of test_exec,
\* execute.
NextFactorial ==
    \/ CpuInit
    \/ CpuLoad(FactorialRun)
    \/ Step

\* execute is a loop that runs by itself until it breaks: weak fairness of Step, with
\* ENABLED <<Step>>_vars written out as the guard of Step (an iteration is possible
\* exactly in the states "loaded" and "running").
SpecFair ==
    /\ Init
    /\ [][NextFactorial]_vars
    /\ (<>[](status \in {"loaded", "running"})) => []<><<Step>>_vars


\* ------------------------------------------------------------------------
\* SpecAddr: addr_add applied to bases and offsets, in either build
\* ------------------------------------------------------------------------

\* Bases: 0, 31, 64, i32::MAX as u64, 0x8000_0000, i64::MIN as u64, u64::MAX - 31 and
\* u64::MAX.
AddrBases ==
    {{}, Bits(31), Bits(64), Width(31), DRAM_BASE, IntMin(64), 5..63, AllOnes(64)}

\* Offsets: 0, 32, 2047, i32::MAX, -1, -32, -2048 and i32::MIN.
AddrOffsets ==
    {{}, Bits(32), Bits(2047), Width(31), AllOnes(32), 5..31, 11..31, IntMin(32)}

\* addr_add(addr, offset), once in a run.
AddrAddOp(addr, offset) ==
    /\ last.op = "new"
    /\ last' = [op |-> "addr_add", addr |-> addr, offset |-> offset,
                res |-> addr_add(addr, offset)]
    /\ UNCHANGED <<csrs, pc, x, mode, status, mem, plic, clint, mmu, build, uart>>

NextAddr ==
    \E addr \in AddrBases, offset \in AddrOffsets : AddrAddOp(addr, offset)

SpecAddr ==
    Init /\ [][NextAddr]_vars


\* ------------------------------------------------------------------------
\* SpecUart: the thread of Uart::new, step by step, interleaved with the calls of the
\* executor on the Uart
\* ------------------------------------------------------------------------

\* The length of stdin.
MaxInput == 2

\* The reads of stdin that return Ok(0).
MaxEof == 1

UartBytes ==
    {Hex(<<4, 1>>), Hex(<<4, 2>>)}

UartInputs ==
    UNION {[1..n -> UartBytes] : n \in 0..MaxInput}

UartAddrs ==
    {UART_RHR, UART_LCR, UART_LSR}

UartSizes ==
    {1, 4}

\* The stores of the runs, <<offset, value>>: 'a' to the THR, 0 to the LCR, and to the
\* LSR 0 and 0x21 (transmitter empty and receiver ready).
UartStores ==
    {<<UART_THR, Hex(<<6, 1>>)>>, <<UART_LCR, {}>>, <<UART_LSR, {}>>, <<UART_LSR, {0, 5}>>}

InitUart ==
    /\ csrs = CsrsNew
    /\ HartNew
    /\ BusNew
    /\ build = [overflow_checks |-> FALSE]
    /\ last = [op |-> "new"]
    /\ \E input \in UartInputs : uart = UartNew(input)

\* io::stdin().read(&mut byte) returns Ok(1) with the next byte of stdin.
ThreadRead ==
    /\ uart.thread = "read"
    /\ uart.stdin # <<>>
    /\ uart' = [uart EXCEPT !.byte = Head(uart.stdin), !.stdin = Tail(uart.stdin),
                            !.thread = "lock"]
    /\ UNCHANGED <<csrs, pc, x, mode, status, mem, plic, clint, mmu, build, last>>

\* io::stdin().read(&mut byte) returns Ok(0) at the end of stdin: the arm Ok(_) runs
\* with the byte left as it was.
ThreadReadEof ==
    /\ uart.thread = "read"
    /\ uart.stdin = <<>>
    /\ uart.eofs < MaxEof
    /\ uart' = [uart EXCEPT !.eofs = uart.eofs + 1, !.thread = "lock"]
    /\ UNCHANGED <<csrs, pc, x, mode, status, mem, plic, clint, mmu, build, last>>

\* uart.lock(), and the return of cvar.wait, which takes the lock again.
ThreadLock ==
    /\ uart.thread \in {"lock", "woken"}
    /\ uart.lock = "free"
    /\ uart' = [uart EXCEPT !.lock = "thread", !.thread = "test"]
    /\ UNCHANGED <<csrs, pc, x, mode, status, mem, plic, clint, mmu, build, last>>

\* The test of the `while` holds: cvar.wait(array) frees the lock and blocks.
ThreadWait ==
    /\ uart.thread = "test"
    /\ ReceiverReady(uart.array)
    /\ uart' = [uart EXCEPT !.lock = "free", !.thread = "wait"]
    /\ UNCHANGED <<csrs, pc, x, mode, status, mem, plic, clint, mmu, build, last>>

\* A wait on a condition variable may return without a notification.
ThreadSpuriousWake ==
    /\ uart.thread = "wait"
    /\ uart' = [uart EXCEPT !.thread = "woken"]
    /\ UNCHANGED <<csrs, pc, x, mode, status, mem, plic, clint, mmu, build, last>>

\* The test of the `while` fails: array[UART_RHR] = byte[0].
ThreadStoreRhr ==
    /\ uart.thread = "test"
    /\ ~ReceiverReady(uart.array)
    /\ uart' = [uart EXCEPT !.array = Put(uart.array, UART_RHR, uart.byte),
                            !.stored = Append(uart.stored, uart.byte),
                            !.fresh = TRUE,
                            !.thread = "flag"]
    /\ UNCHANGED <<csrs, pc, x, mode, status, mem, plic, clint, mmu, build, last>>

\* read_interrupt.store(true, Ordering::Release)
ThreadRaise ==
    /\ uart.thread = "flag"
    /\ uart' = [uart EXCEPT !.interrupt = TRUE, !.raises = uart.raises + 1,
                            !.thread = "ready"]
    /\ UNCHANGED <<csrs, pc, x, mode, status, mem, plic, clint, mmu, build, last>>

\* array[UART_LSR] |= MASK_UART_LSR_RX; the guard is dropped at the end of the arm.
ThreadSetReady ==
    /\ uart.thread = "ready"
    /\ uart' = [uart EXCEPT !.array = Put(uart.array, UART_LSR,
                                          BitOr(Get(uart.array, UART_LSR),
                                                MASK_UART_LSR_RX)),
                            !.lock = "free", !.thread = "read"]
    /\ UNCHANGED <<csrs, pc, x, mode, status, mem, plic, clint, mmu, build, last>>

\* History: the calls of the executor since is_interrupting last returned true are
\* loads, none of them a load of the RHR. last.fresh and last.stored of a load: no load
\* had returned the byte in the RHR before it, and the bytes the thread had stored;
\* last.waiting: the thread was blocked in cvar.wait.
AfterPoll ==
    CASE last.op = "uart_poll" -> last.res
      [] last.op = "uart_load" -> last.after_poll /\ ~(last.addr = UART_RHR /\ last.size = 1)
      [] OTHER -> FALSE

\* Uart::load, called by the executor: it takes the lock for the length of the call.
UartLoadOp(addr, size) ==
    /\ IF size # 1
       THEN /\ last' = [op |-> "uart_load", addr |-> addr, size |-> size,
                        res |-> Err("LoadAccessFault", Bits(addr)),
                        after_poll |-> AfterPoll]
            /\ UNCHANGED uart
       ELSE /\ uart.lock = "free"
            /\ \E r \in {UartLoadLocked(uart, addr)} :
                  /\ uart' = r.uart
                  /\ last' = [op |-> "uart_load", addr |-> addr, size |-> size,
                              res |-> r.res, after_poll |-> AfterPoll,
                              fresh |-> uart.fresh, stored |-> uart.stored,
                              waiting |-> uart.thread = "wait"]
    /\ UNCHANGED <<csrs, pc, x, mode, status, mem, plic, clint, mmu, build>>

\* Uart::store, called by the executor.
UartStoreOp(addr, size, value) ==
    /\ IF size # 1
       THEN /\ last' = [op |-> "uart_store", addr |-> addr, size |-> size,
                        res |-> Err("StoreAMOAccessFault", Bits(addr))]
            /\ UNCHANGED uart
       ELSE /\ uart.lock = "free"
            /\ \E r \in {UartStoreLocked(uart, addr, value)} :
                  /\ uart' = r.uart
                  /\ last' = [op |-> "uart_store", addr |-> addr, size |-> size,
                              res |-> r.res]
    /\ UNCHANGED <<csrs, pc, x, mode, status, mem, plic, clint, mmu, build>>

\* Uart::is_interrupting: interrupt.swap(false, Ordering::Acquire)
UartPollOp ==
    /\ uart' = [uart EXCEPT !.interrupt = FALSE]
    /\ last' = [op |-> "uart_poll", res |-> uart.interrupt]
    /\ UNCHANGED <<csrs, pc, x, mode, status, mem, plic, clint, mmu, build>>

NextUart ==
    \/ ThreadRead
    \/ ThreadReadEof
    \/ ThreadLock
    \/ ThreadWait
    \/ ThreadSpuriousWake
    \/ ThreadStoreRhr
    \/ ThreadRaise
    \/ ThreadSetReady
    \/ \E addr \in UartAddrs, size \in UartSizes : UartLoadOp(addr, size)
    \/ \E st \in UartStores, size \in UartSizes : UartStoreOp(st[1], size, st[2])
    \/ UartPollOp

SpecUart ==
    InitUart /\ [][NextUart]_vars

\* A step of the thread past its read of stdin, other than a return of cvar.wait
\* without a notification.
ThreadStep ==
    \/ ThreadLock
    \/ ThreadWait
    \/ ThreadStoreRhr
    \/ ThreadRaise
    \/ ThreadSetReady

\* The thread, and an executor that loads the RHR, polls, and stores 0x21 to the LSR.
NextUartFair ==
    \/ ThreadRead
    \/ ThreadReadEof
    \/ ThreadSpuriousWake
    \/ ThreadStep
    \/ UartLoadOp(UART_RHR, 1)
    \/ UartStoreOp(UART_LSR, 1, {0, 5})
    \/ UartPollOp

\* SpecUartFair: the thread is an operating-system thread of its own, which the
\* scheduler runs whenever it can take a step; the calls of the executor, the arrival
\* of input and spurious wakeups may or may not happen.
SpecUartFair ==
    InitUart /\ [][NextUartFair]_vars /\ WF_vars(ThreadStep)


\* ------------------------------------------------------------------------
\* Claims on the CSR file (SpecCsr)
\* ------------------------------------------------------------------------

CsrSlots ==
    0..4095

\* The S-visible bits of mstatus: SIE | SPIE | UBE | SPP | FS | XS | SUM | MXR | UXL | SD.
SSTATUS_MASK ==
    {1, 5, 6, 8, 13, 14, 15, 16, 18, 19, 32, 33, 63}

\* C7: sstatus is a masked view of mstatus. A load of sstatus returns the stored
\* mstatus word AND SSTATUS_MASK; a store of v to sstatus sets mstatus to
\* (old AND NOT SSTATUS_MASK) OR (v AND SSTATUS_MASK), leaves every other CSR slot
\* as it was, and a load of sstatus after it returns v AND SSTATUS_MASK.
C7_SstatusAliasing ==
    /\ (last.op = "load" /\ last.addr = SSTATUS) =>
          last.ret = Get(last.old, MSTATUS) \cap SSTATUS_MASK
    /\ (last.op = "store" /\ last.addr = SSTATUS) =>
          /\ Get(csrs, MSTATUS) =
                (Get(last.old, MSTATUS) \ SSTATUS_MASK) \cup (last.value \cap SSTATUS_MASK)
          /\ \A a \in CsrSlots \ {MSTATUS} : Get(csrs, a) = Get(last.old, a)
          /\ CsrsLoad(csrs, SSTATUS) = last.value \cap SSTATUS_MASK

\* C7 happens: all ones are stored to sstatus while mstatus holds MIE, MPIE and MPP
\* (outside the mask) and has SIE (inside the mask) clear.
C7_Witness ==
    /\ last.op = "store" /\ last.addr = SSTATUS /\ last.value = AllOnes(64)
    /\ (MASK_MIE \cup MASK_MPIE \cup MASK_MPP) \subseteq Get(last.old, MSTATUS)
    /\ MASK_SIE \cap Get(last.old, MSTATUS) = {}

\* C8: sie and sip are views of mie and mip through mideleg. A store of v to sie sets
\* mie to (old mie AND NOT mideleg) OR (v AND mideleg) and leaves mip as it was; a
\* store of v to sip sets mip to (old mip AND NOT mideleg) OR (v AND mideleg) and
\* leaves mie as it was.
C8_SieSipAliasing ==
    /\ (last.op = "store" /\ last.addr = SIE) =>
          /\ Get(csrs, MIE) =
                (Get(last.old, MIE) \ Get(last.old, MIDELEG))
                \cup (last.value \cap Get(last.old, MIDELEG))
          /\ Get(csrs, MIP) = Get(last.old, MIP)
    /\ (last.op = "store" /\ last.addr = SIP) =>
          /\ Get(csrs, MIP) =
                (Get(last.old, MIP) \ Get(last.old, MIDELEG))
                \cup (last.value \cap Get(last.old, MIDELEG))
          /\ Get(csrs, MIE) = Get(last.old, MIE)

\* ------------------------------------------------------------------------
\* Claims on the bus (SpecBus)
\* ------------------------------------------------------------------------

\* The address is in none of the regions of the memory map: the CLINT at
\* 0x0200_0000..0x0201_0000, the PLIC at 0x0C00_0000..0x1000_0000 and the DRAM at
\* 0x8000_0000..0x8800_0000 (the upper ends excluded).
Unmapped(addr) ==
    /\ ~(ULe(Hex(<<2, 0, 0, 0, 0, 0, 0>>), addr) /\ ULt(addr, Hex(<<2, 0, 1, 0, 0, 0, 0>>)))
    /\ ~(ULe(Hex(<<12, 0, 0, 0, 0, 0, 0>>), addr) /\ ULt(addr, Hex(<<1, 0, 0, 0, 0, 0, 0, 0>>)))
    /\ ~(ULe(Hex(<<8, 0, 0, 0, 0, 0, 0, 0>>), addr) /\ ULt(addr, Hex(<<8, 8, 0, 0, 0, 0, 0, 0>>)))

\* C10: a bus load of an address outside the DRAM, CLINT and PLIC ranges returns
\* LoadAccessFault(addr) and a bus store returns StoreAMOAccessFault(addr), for every
\* size, and the failed store leaves the DRAM and the devices as they were.
C10_UnmappedFaults ==
    /\ (last.op = "load" /\ Unmapped(last.addr)) =>
          last.res = [tag |-> "Err", exc |-> "LoadAccessFault", val |-> last.addr]
    /\ (last.op = "store" /\ Unmapped(last.addr)) =>
          /\ last.res = [tag |-> "Err", exc |-> "StoreAMOAccessFault", val |-> last.addr]
          /\ mem = last.old.mem
          /\ plic = last.old.plic
          /\ clint = last.old.clint

\* C10 happens: a store to 0x1000_0000, the address after the PLIC's last, is refused
\* while the DRAM holds stored bytes; and a load of an unmapped address is refused.
C10_Witness ==
    /\ last.op = "store"
    /\ last.addr = Hex(<<1, 0, 0, 0, 0, 0, 0, 0>>)
    /\ Unmapped(last.addr)
    /\ last.res.tag = "Err"
    /\ mem.data # Empty

\* ------------------------------------------------------------------------
\* Claims on the DRAM behind the bus (SpecBus)
\* ------------------------------------------------------------------------

\* C22: with the DRAM allocated, a bus load or store of 1, 2, 4 or 8 bytes at an
\* address of the DRAM range returns a result, a value or an exception, also when its
\* last byte addr + size - 1 lies past the end of the DRAM: it does not abort.
C22_DramBounds ==
    (/\ last.op \in {"load", "store"}
     /\ last.old.mem.len = DRAM_SIZE
     /\ last.size \in {1, 2, 4, 8}
     /\ InRange(last.addr, DRAM_BASE, DRAM_END)) =>
       last.res.tag \in {"Ok", "Err"}
\* ------------------------------------------------------------------------
\* Claims on the enable registers of the PLIC (SpecBus)
\* ------------------------------------------------------------------------

\* C23: for every context c and word w in range, the offset 0x2000 + 0x80 * c + 4 * w
\* is parsed as the enable register of context c, word w (0x2084 as context 1, word
\* 1), and a load or a store of it does not index out of bounds: the store writes
\* enable word w of context c and the load returns it.
C23_PlicEnableDecode ==
    /\ parse_addr(EnableAddr(1, 1)).a = 1
    /\ parse_addr(EnableAddr(1, 1)).b = 1
    /\ \A c \in 0..(HART_COUNT - 1), w \in 0..(WordCount - 1) :
          /\ parse_addr(EnableAddr(c, w)) = PlicOp("EnableBitsForSourcesAndOnContext", w, c)
          /\ (last.op = "plic_store" /\ last.addr = EnableAddr(c, w)) =>
                /\ last.res = Ok({})
                /\ plic.context[c].enable_bits[w] = Trunc(last.data, 32)
          /\ (last.op = "plic_load" /\ last.addr = EnableAddr(c, w)) =>
                last.res = Ok(plic.context[c].enable_bits[w])

\* C23, the handlers alone: a load or a store of the enable register of a context c and
\* a word w in range does not index out of bounds.
C23_EnableInBounds ==
    \A c \in 0..(HART_COUNT - 1), w \in 0..(WordCount - 1) :
       (last.op \in {"plic_load", "plic_store"} /\ last.addr = EnableAddr(c, w)) =>
          last.res.tag # "Panic"
\* ------------------------------------------------------------------------
\* Claims on the decoder (SpecDecode)
\* ------------------------------------------------------------------------

\* The decoded word is a CSR instruction: opcode SYSTEM, funct3 none of 000 and 100.
IsCsrWord(bits) ==
    /\ bits \cap (0..6) = {0, 1, 4, 5, 6}
    /\ bits \cap (12..14) \notin {{}, {14}}

\* The CSR variant that funct3 (bits 14..12) names.
CsrVariant(bits) ==
    CASE bits \cap (12..14) = {12} -> "Csrrw"
      [] bits \cap (12..14) = {13} -> "Csrrs"
      [] bits \cap (12..14) = {12, 13} -> "Csrrc"
      [] bits \cap (12..14) = {12, 14} -> "Csrrwi"
      [] bits \cap (12..14) = {13, 14} -> "Csrrsi"
      [] bits \cap (12..14) = {12, 13, 14} -> "Csrrci"

\* C6: for a CSR address with bits [11:10] = 11 (bits 31 and 30 of the word), decode
\* returns Illegal for csrrw and csrrwi and for csrrs, csrrc, csrrsi, csrrci with a
\* non-zero rs1 / uimm field (bits 19..15), and the CSR variant that funct3 names when
\* that field is zero; for every other CSR address it returns the CSR variant.
C6_ReadOnlyCsrDecode ==
    (last.op = "decode" /\ IsCsrWord(last.bits)) =>
       IF {30, 31} \subseteq last.bits
          /\ (CsrVariant(last.bits) \in {"Csrrw", "Csrrwi"} \/ last.bits \cap (15..19) # {})
       THEN last.inst.op = "Illegal"
       ELSE last.inst.op = CsrVariant(last.bits)

\* C6 happens: csrrs x5, cycle, x0 is decoded (a read-only CSR, rs1 = 0) to Csrrs.
C6_Witness ==
    /\ last.op = "decode"
    /\ last.bits = EncI(115, 5, 2, 0, 3072)
    /\ last.inst.op = "Csrrs"
    /\ last.inst.csr = CYCLE

\* The 12-bit immediate field of a word (bits 31..20) read as unsigned, and without
\* its bit 10, the marker of SRAI, for funct3 = 101.
ShiftField(bits) ==
    IF Field(bits, 12, 3) = 5 /\ 30 \in bits
    THEN Field(bits, 20, 12) - 1024
    ELSE Field(bits, 20, 12)

\* The largest shift amount of the opcode: 63 for OP-IMM, 31 for OP-IMM-32.
ShiftLimit(bits) ==
    IF Field(bits, 0, 7) = 19 THEN 63 ELSE 31

IsShiftImmWord(bits) ==
    Field(bits, 0, 7) \in {19, 27} /\ Field(bits, 12, 3) \in {1, 5}

\* C27: decode returns Illegal for every shift encoding of OP-IMM (funct3 001 or 101)
\* whose 12-bit immediate field, read as unsigned and without the SRAI marker for
\* funct3 101, is above 63, and for every one of OP-IMM-32 where it is above 31; a
\* decoded Slli, Srli or Srai carries an imm of 0..63 and a Slliw, Srliw or Sraiw one
\* of 0..31, also when bit 31 of the word is set.
C27_ShiftImmediateDecode ==
    (last.op = "decode" /\ IsShiftImmWord(last.bits)) =>
       /\ ShiftField(last.bits) > ShiftLimit(last.bits) => last.inst.op = "Illegal"
       /\ last.inst.op # "Illegal" =>
             /\ last.inst.op \in {"Slli", "Srli", "Srai", "Slliw", "Srliw", "Sraiw"}
             /\ last.inst.imm = Bits(ShiftField(last.bits))
             /\ ShiftField(last.bits) <= ShiftLimit(last.bits)

\* C27 for the words with bit 31 clear.
C27_ShiftImmediatePositive ==
    (last.op = "decode" /\ IsShiftImmWord(last.bits) /\ 31 \notin last.bits) =>
       /\ ShiftField(last.bits) > ShiftLimit(last.bits) => last.inst.op = "Illegal"
       /\ last.inst.op # "Illegal" =>
             /\ last.inst.op \in {"Slli", "Srli", "Srai", "Slliw", "Srliw", "Sraiw"}
             /\ last.inst.imm = Bits(ShiftField(last.bits))
             /\ ShiftField(last.bits) <= ShiftLimit(last.bits)

\* ------------------------------------------------------------------------
\* Claims on the MMU (SpecMmu)
\* ------------------------------------------------------------------------

\* The 64-bit word the DRAM holds at the physical address a, 0 outside the DRAM.
DramWord(a) ==
    IF InRange(a, DRAM_BASE, WrappingSub(DRAM_END, Bits(7), 64))
    THEN MemoryLoad(mem, WrappingSub(a, DRAM_BASE, 64), 8).val
    ELSE {}

\* The address of the entry of va at a level in the (page-aligned) table.
PteAddr(table, va, level) ==
    table \cup {i - (9 + 9 * level) : i \in va \cap ((12 + 9 * level)..(20 + 9 * level))}

\* A valid entry that is a leaf (R or X, never W without R), or a pointer (no R, W, X).
IsLeaf(pte) ==
    0 \in pte /\ (1 \in pte \/ 3 \in pte) /\ ~(2 \in pte /\ 1 \notin pte)

IsPointer(pte) ==
    0 \in pte /\ pte \cap {1, 2, 3} = {}

\* The table or page an entry names: ppn << 12.
PpnBase(pte) ==
    {i + 2 : i \in pte \cap (10..53)}

\* The physical address of va under the leaf pte found at a level: at level 0 every
\* PPN bit and the 12-bit offset, at level 1 ppn[2] || ppn[1] || vpn[0] || offset, at
\* level 2 ppn[2] || vpn[1] || vpn[0] || offset.
LeafPa(pte, va, level) ==
    {i + 2 : i \in pte \cap ((10 + 9 * level)..53)} \cup (va \cap (0..(11 + 9 * level)))

\* The walk of the tree of the root table for va from a level down: the set of the
\* physical address of va, empty when the tree has no leaf for va.
RECURSIVE WalkPa(_, _, _)
WalkEntry(pte, va, level) ==
    IF IsLeaf(pte) THEN {LeafPa(pte, va, level)}
    ELSE IF IsPointer(pte) /\ level > 0 THEN WalkPa(PpnBase(pte), va, level - 1)
    ELSE {}

WalkPa(table, va, level) ==
    WalkEntry(DramWord(PteAddr(table, va, level)), va, level)

\* C9: with Sv39 active (satp.MODE = 8) and a valid tree under satp.PPN, translate
\* returns for va the address that the leaf of va gives at its level (0, 1 or 2), so
\* that a byte load at the translation of VA 0x1000 reads the byte stored at the
\* page the tree maps it to.
C9_Sv39WalkResult ==
    (last.op = "translate" /\ last.satp \cap (60..63) = {63}) =>
       \A pa \in WalkPa({i + 12 : i \in last.satp \cap (0..43)}, last.addr, 2) :
          /\ last.res = [tag |-> "Ok", exc |-> "", val |-> pa]
          /\ BusLoad(last.res.val, 1) = BusLoad(pa, 1)

\* The root table satp names: satp.PPN << 12.
SatpRoot ==
    {i + 12 : i \in last.satp \cap (0..43)}

\* The leaf entry of va in the tree of the table, from a level down: the set of that
\* entry, empty when the tree has no leaf for va.
RECURSIVE WalkLeaf(_, _, _)
WalkLeafEntry(pte, va, level) ==
    IF IsLeaf(pte) THEN {pte}
    ELSE IF IsPointer(pte) /\ level > 0 THEN WalkLeaf(PpnBase(pte), va, level - 1)
    ELSE {}

WalkLeaf(table, va, level) ==
    WalkLeafEntry(DramWord(PteAddr(table, va, level)), va, level)

\* The leaf does not permit the access: a store without W or D, a load without R
\* (unless X is set and mstatus.MXR is), a fetch without X, any access without A, an
\* access in User mode without U.
LeafDenies(pte, access_type) ==
    \/ access_type = "Store" /\ (2 \notin pte \/ 7 \notin pte)
    \/ access_type = "Load" /\ 1 \notin pte /\ (3 \notin pte \/ 19 \notin Get(csrs, MSTATUS))
    \/ access_type = "Instruction" /\ 3 \notin pte
    \/ 6 \notin pte
    \/ mode = USER_MODE /\ 4 \notin pte

\* C19: with Sv39 active, translate returns no physical address through a leaf that
\* does not permit the access: a store lacking W or D gets StoreAMOPageFault(va), a load
\* lacking R (with X or MXR clear) LoadPageFault(va), a fetch lacking X
\* InstructionPageFault(va); a leaf lacking A faults, and so does one lacking U for an
\* access in User mode.
C19_Sv39Permissions ==
    (last.op = "translate" /\ last.satp \cap (60..63) = {63}) =>
       \A pte \in WalkLeaf(SatpRoot, last.addr, 2) :
          LeafDenies(pte, last.access_type) =>
             last.res = PageFault(last.access_type, last.addr)

\* C20: with Sv39 active, when the 8-byte load of a page-table entry fails on the bus,
\* translate returns the page fault of the access type with the virtual address, never
\* LoadAccessFault with the address of the table.
C20_PageWalkBusFault ==
    (last.op = "translate" /\ last.satp \cap (60..63) = {63}
     /\ BusLoad(PteAddr(SatpRoot, last.addr, 2), 8).tag = "Err") =>
       last.res = PageFault(last.access_type, last.addr)

\* ------------------------------------------------------------------------
\* Claims on the executor (Spec)
\* ------------------------------------------------------------------------

\* The last iteration of the loop fetched an instruction.
Stepped ==
    last.op = "step" /\ last.fetched = "Ok"

\* The last iteration executed its instruction: the arm ran to its end.
Executed ==
    Stepped /\ last.tag \in {"Next", "Continue"}

\* C1: after every executed instruction, one whose rd is x0 included (addi x0, x0, 5;
\* jal x0), register x0 holds 0, so that every later instruction reads 0 from it.
C1_RegisterZero ==
    Executed => Get(x, 0) = {}

WOps ==
    {"Addiw", "Slliw", "Srliw", "Sraiw", "Addw", "Subw", "Sllw", "Srlw", "Sraw", "Mulw"}

\* C2: after ADDIW, SLLIW, SRLIW, SRAIW, ADDW, SUBW, SLLW, SRLW, SRAW or MULW, each of
\* the bits 63..32 of rd equals bit 31 of rd.
C2_WordResultsSignExtended ==
    (Executed /\ last.inst.op \in WOps) =>
       \A k \in 32..63 : (k \in Get(x, last.inst.rd)) <=> (31 \in Get(x, last.inst.rd))

\* The result of DIV, DIVU, REM or REMU, r, is that of the edge cases for the
\* dividend a and the divisor b: the divisor 0, and i64::MIN by -1.
DivisionEdgeCase(op, a, b, r) ==
    /\ b = {} => r = (IF op \in {"Div", "Divu"} THEN AllOnes(64) ELSE a)
    /\ (a = IntMin(64) /\ b = AllOnes(64) /\ op = "Div") => r = IntMin(64)
    /\ (a = IntMin(64) /\ b = AllOnes(64) /\ op = "Rem") => r = {}

\* C3: DIV and DIVU by 0 give all ones, REM and REMU by 0 give the dividend, DIV of
\* -2^63 by -1 gives -2^63 and REM of them gives 0; no pair of operands makes the
\* executor abort.
C3_DivisionEdgeCases ==
    (Stepped /\ last.inst.op \in DivOps) =>
       /\ last.tag = "Next"
       /\ status = "running"
       /\ DivisionEdgeCase(last.inst.op, Get(last.x, last.inst.rs1),
                           Get(last.x, last.inst.rs2), Get(x, last.inst.rd))

\* div x3, x1, x2 has run with x1 = -2^63 and x2 = -1, and x3 is -2^63.
C3_Witness ==
    /\ Stepped
    /\ last.inst = Inst("Div", 3, 1, 2, {}, 0)
    /\ Get(last.x, 1) = IntMin(64)
    /\ Get(last.x, 2) = AllOnes(64)
    /\ Get(x, 3) = IntMin(64)
    /\ status = "running"

\* C4: an ecall in M-mode at P with mtvec = T and mstatus.MIE = m sets mepc = P,
\* mcause = 11, pc = T, MPP = M, MPIE = m and MIE = 0, and the hart keeps running; an
\* mret sets the pc to mepc, MIE to MPIE, MPIE to 1 and MPP to U, and the hart keeps
\* running.
C4_EcallMretRoundTrip ==
    /\ (Stepped /\ last.inst.op = "Ecall" /\ last.mode = MACHINE_MODE) =>
          /\ status = "running"
          /\ CsrsLoad(csrs, MEPC) = last.pc
          /\ CsrsLoad(csrs, MCAUSE) = Bits(11)
          /\ pc = CsrsLoad(last.csrs, MTVEC)
          /\ {11, 12} \subseteq CsrsLoad(csrs, MSTATUS)
          /\ (7 \in CsrsLoad(csrs, MSTATUS)) <=> (3 \in CsrsLoad(last.csrs, MSTATUS))
          /\ 3 \notin CsrsLoad(csrs, MSTATUS)
    /\ (Stepped /\ last.inst.op = "Mret" /\ last.mode = MACHINE_MODE) =>
          /\ status = "running"
          /\ pc = CsrsLoad(last.csrs, MEPC)
          /\ (3 \in CsrsLoad(csrs, MSTATUS)) <=> (7 \in CsrsLoad(last.csrs, MSTATUS))
          /\ 7 \in CsrsLoad(csrs, MSTATUS)
          /\ CsrsLoad(csrs, MSTATUS) \cap {11, 12} = {}

\* The privilege level of a mode of the hart: U = 0, S = 1, M = 3.
PrivilegeOf(m) ==
    CASE m = MACHINE_MODE -> 3
      [] m = SUPERVISOR_MODE -> 1
      [] OTHER -> 0

\* C5: a CSR instruction on the address A, run in a mode below (A >> 8) & 3, does not
\* complete, and leaves the registers and the CSR file as they were.
C5_CsrPrivilege ==
    (/\ Stepped
     /\ last.inst.op \in CsrRegOps \cup CsrImmOps
     /\ PrivilegeOf(last.mode) < csr_min_prv_level(last.inst.csr)) =>
       /\ last.tag # "Next"
       /\ x = last.x
       /\ csrs = last.csrs

\* ------------------------------------------------------------------------
\* Claims on the publication of a received byte (SpecUart)
\* ------------------------------------------------------------------------

\* C25: once is_interrupting has returned true, the next loads of the executor see the
\* published byte: a load of the LSR shows receiver-ready set, and a load of the RHR
\* returns the byte the thread stored before it raised the flag.
C25_UartPublication ==
    (last.op = "uart_load" /\ last.size = 1 /\ last.after_poll) =>
       /\ last.addr = UART_LSR => 0 \in last.res.val
       /\ last.addr = UART_RHR =>
             /\ last.stored # <<>>
             /\ last.res.val = last.stored[Len(last.stored)]

\* C25, the RHR alone: after a poll that returned true, a load of the RHR returns the
\* byte the thread stored last.
C25_RhrAfterPoll ==
    (last.op = "uart_load" /\ last.size = 1 /\ last.after_poll /\ last.addr = UART_RHR) =>
       /\ last.stored # <<>>
       /\ last.res.val = last.stored[Len(last.stored)]

\* C25 for a byte not taken yet: when no load has returned the byte in the RHR and no
\* store has written the LSR, the loads after a poll that returned true see
\* receiver-ready set and the byte.
C25_FreshByteAfterPoll ==
    (/\ last.op = "uart_load" /\ last.size = 1 /\ last.after_poll
     /\ ~uart.lsr_stored
     /\ last.fresh) =>
       /\ last.addr = UART_LSR => 0 \in last.res.val
       /\ last.addr = UART_RHR => last.res.val = last.stored[Len(last.stored)]

\* C25, the flag: it is raised by the thread only, after a store to the RHR, and a
\* poll clears it, so that one stored byte makes the poll return true at most once.
C25_PollOnce ==
    [][/\ (uart'.interrupt /\ ~uart.interrupt) =>
             (uart.thread = "flag" /\ Len(uart'.stored) = Len(uart.stored))
       /\ (last' # last /\ last'.op = "uart_poll") => ~uart'.interrupt]_vars
\* C26: in every reachable state, after any loads and byte stores of the executor at
\* any register of the UART and any steps of the thread, bit 5 of the LSR
\* (transmitter empty) is set.
C26_TransmitterEmpty ==
    5 \in Get(uart.array, UART_LSR)

\* C26 without stores to the LSR: the thread and the loads leave bit 5 set.
C26_TransmitterEmptyUnstored ==
    ~uart.lsr_stored => 5 \in Get(uart.array, UART_LSR)

\* ------------------------------------------------------------------------
\* Claims on the effective address (SpecAddr)
\* ------------------------------------------------------------------------

\* C28: for every 64-bit base a and every 32-bit signed offset off, -2^31 and the
\* sums that cross 0 or 2^64 included, addr_add(a, off) returns (a + sext(off)) mod
\* 2^64 and does not abort on an arithmetic overflow; addr_add(64, -32) is 32.
C28_EffectiveAddress ==
    /\ addr_add(Bits(64), 5..31) = Ok(Bits(32))
    /\ last.op = "addr_add" =>
          last.res = Ok(WrappingAdd(last.addr, SExt(last.offset, 32, 64), 64))

\* C28 in a build without overflow checks, and in either build for the sums that stay
\* within 0 .. 2^64 - 1.
C28_WrappingOrInRange ==
    (/\ last.op = "addr_add"
     /\ \/ ~build.overflow_checks
        \/ (31 \in last.offset /\ ~SubUnderflows(last.addr, WrappingNeg(last.offset, 32)))
        \/ (31 \notin last.offset /\ ~AddOverflows(last.addr, last.offset))) =>
       last.res = Ok(WrappingAdd(last.addr, SExt(last.offset, 32, 64), 64))
\* ------------------------------------------------------------------------
\* Claims on the jumps (Spec)
\* ------------------------------------------------------------------------

\* C24: an executed Jal or Jalr (rd not x0) leaves pc + len in rd, len the length of
\* the encoding it was fetched from (2 for C.JALR, 4 otherwise); Jal leaves pc + imm
\* in the pc, Jalr (rs1 + imm) & ~1 with the value rs1 had before rd was written.
C24_JumpLinkAndTarget ==
    (Executed /\ last.inst.op \in {"Jal", "Jalr"}) =>
       /\ last.inst.rd # 0 =>
             Get(x, last.inst.rd) = WrappingAdd(last.pc, Bits(last.len), 64)
       /\ last.inst.op = "Jal" =>
             pc = WrappingAdd(last.pc, SExt(last.inst.imm, 32, 64), 64)
       /\ last.inst.op = "Jalr" =>
             pc = WrappingAdd(Get(last.x, last.inst.rs1), SExt(last.inst.imm, 32, 64), 64) \ {0}

\* C24 but for the length: the link is pc + 4.
C24_LinkOfFour ==
    (Executed /\ last.inst.op \in {"Jal", "Jalr"}) =>
       /\ last.inst.rd # 0 => Get(x, last.inst.rd) = WrappingAdd(last.pc, Bits(4), 64)
       /\ last.inst.op = "Jal" =>
             pc = WrappingAdd(last.pc, SExt(last.inst.imm, 32, 64), 64)
       /\ last.inst.op = "Jalr" =>
             pc = WrappingAdd(Get(last.x, last.inst.rs1), SExt(last.inst.imm, 32, 64), 64) \ {0}
\* The word in the DRAM at the pc of the last iteration.
FetchedWord ==
    MemoryLoad(mem, WrappingSub(last.pc, DRAM_BASE, 64), 4).val

\* sext32(U << 12) for the bits 31..12 of the word.
UpperImmediate(bits) ==
    SExt(BitAnd(bits, 12..31), 32, 64)

\* sext(n) << 12 for the 6-bit immediate n of a C.LUI parcel (bit 12 and bits 6..2).
CompactUpperImmediate(bits) ==
    {i + 10 : i \in bits \cap (2..6)} \cup (IF 12 \in bits THEN 17..63 ELSE {})

\* C29: an executed 32-bit LUI whose bits 31..12 hold U writes sext32(U << 12) to rd,
\* AUIPC writes pc + sext32(U << 12), and a C.LUI with the 6-bit immediate n writes
\* sext(n) << 12: the shift by 12 is applied once.
C29_UpperImmediate ==
    (Executed /\ last.inst.rd # 0) =>
       /\ (last.inst.op = "Lui" /\ last.len = 4) =>
             Get(x, last.inst.rd) = UpperImmediate(FetchedWord)
       /\ last.inst.op = "Auipc" =>
             Get(x, last.inst.rd) = WrappingAdd(last.pc, UpperImmediate(FetchedWord), 64)
       /\ (last.inst.op = "Lui" /\ last.len = 2) =>
             Get(x, last.inst.rd) = CompactUpperImmediate(FetchedWord)

\* What the arms leave in rd: the composed immediate shifted by 12 once more.
C29_ShiftedTwice ==
    (Executed /\ last.inst.rd # 0) =>
       /\ (last.inst.op = "Lui" /\ last.len = 4) =>
             Get(x, last.inst.rd) = Shl(UpperImmediate(FetchedWord), 12, 64)
       /\ last.inst.op = "Auipc" =>
             Get(x, last.inst.rd)
                = WrappingAdd(last.pc, Shl(UpperImmediate(FetchedWord), 12, 64), 64)
       /\ (last.inst.op = "Lui" /\ last.len = 2) =>
             Get(x, last.inst.rd) = Shl(CompactUpperImmediate(FetchedWord), 12, 64)

\* ------------------------------------------------------------------------
\* Claims on the devices of the bus (SpecBus)
\* ------------------------------------------------------------------------

\* The bus address of the priority threshold of PLIC context c:
\* PLIC_BASE + 0x20_0000 + 0x1000 * c.
ThresholdAddr(c) ==
    WrappingAdd(PLIC_BASE,
                Bits(INT_PRIORITY_THRESHOLD_BASE + INT_PRIORITY_THRESHOLD_STRIDE * c), 64)

\* C11: a 32-bit bus store of v to the priority threshold of context 1 (PLIC_BASE +
\* 0x20_1000) completes and writes the threshold of context 1, and a 32-bit bus load
\* of that address returns the threshold.
C11_PlicThresholdThroughBus ==
    /\ (last.op = "store" /\ last.addr = ThresholdAddr(1) /\ last.size = 4) =>
          /\ last.res = Ok({})
          /\ plic.context[1].priority_threshold = Trunc(last.data, 32)
    /\ (last.op = "load" /\ last.addr = ThresholdAddr(1) /\ last.size = 4) =>
          last.res = Ok(plic.context[1].priority_threshold)

\* C12: an 8-byte bus store of v to mtimecmp (CLINT_BASE + 0x4000) succeeds and writes
\* mtimecmp, an 8-byte bus load of that address returns mtimecmp, and the accesses of
\* the other sizes are rejected.
C12_ClintAccess ==
    /\ (last.op = "store" /\ last.addr = CLINT_MTIMECMP /\ last.size = 8) =>
          /\ last.res = Ok({})
          /\ clint.mtimecmp = last.data
    /\ (last.op = "load" /\ last.addr = CLINT_MTIMECMP /\ last.size = 8) =>
          last.res = Ok(clint.mtimecmp)
    /\ (last.op \in {"load", "store"} /\ last.addr = CLINT_MTIMECMP /\ last.size # 8) =>
          last.res.tag = "Err"

\* The program of test_exec is the one in memory.
FactorialInMemory ==
    MemoryLoad(mem, {}, 4) = Ok(FactorialWords[1])

FactorialLoaded ==
    status = "loaded" /\ FactorialInMemory

\* execute has returned from the run of test_exec as the claim says: stopped by the
\* word at 0x8000_0070, with 120 in a0.
FactorialDone ==
    /\ FactorialInMemory
    /\ status = "halted"
    /\ pc = DRAM_BASE \cup Hex(<<7, 0>>)
    /\ Get(x, 10) = Bits(120)

\* C13: the run of test_exec (the factorial program at DRAM_BASE, a0 = 5, ra = entry +
\* 0x70, sp = 0x8000_0400, pc = entry) terminates: execute halts on the illegal word at
\* entry + 0x70 after the outermost return, with a0 = 120.
C13_FactorialEndToEnd ==
    FactorialLoaded ~> FactorialDone

C13_Witness ==
    FactorialDone /\ Stepped /\ last.inst.op = "Illegal"

\* Claims on the Uart (SpecUart)

\* The thread holds a byte it has read and not yet written to the RHR.
ByteInHand ==
    IF uart.thread \in {"lock", "test", "wait", "woken"} /\ uart.eofs = 0 THEN 1 ELSE 0

IsPrefix(s, t) ==
    Len(s) <= Len(t) /\ s = SubSeq(t, 1, Len(s))

\* C14: as long as the executor has not stored to the LSR, in every interleaving of the
\* thread with loads, stores and polls of the executor: the thread writes the RHR only
\* while receiver-ready is clear; each byte it has written is returned by a load of
\* the RHR before the next one replaces it; and the bytes returned are those of stdin,
\* in their order, none left out.
C14_UartReceiveHandOff ==
    ~uart.lsr_stored =>
       /\ uart.thread \in {"flag", "ready"} => ~ReceiverReady(uart.array)
       /\ IsPrefix(uart.returned, uart.stored)
       /\ Len(uart.stored) - Len(uart.returned) = (IF uart.fresh THEN 1 ELSE 0)
       /\ IsPrefix(uart.stored, uart.input) \/ IsPrefix(uart.input, uart.stored)
       /\ uart.eofs = 0 =>
             Len(uart.stored) + ByteInHand + Len(uart.stdin) = Len(uart.input)

\* The executor has just been handed the last byte of a stdin of MaxInput bytes that
\* begins with two different bytes, and has been handed the ones before it.
C14_Witness ==
    /\ ~uart.lsr_stored
    /\ Len(uart.input) = MaxInput
    /\ uart.input[1] # uart.input[2]
    /\ uart.returned = uart.input
    /\ last.op = "uart_load"
    /\ last.addr = UART_RHR
    /\ last.res = Ok(uart.input[MaxInput])

\* Claims on decode_compressed (SpecDecode)

\* The bits hi..lo of the parcel decoded last, as a number.
ParcelField(lo, n) ==
    (ToNat(last.bits) \div Pow2(lo)) % Pow2(n)

\* The 6-bit immediate of the CI format (bit 12, bits 6..2), sign-extended to an i32.
Sext6 ==
    IF ParcelField(12, 1) = 1
    THEN (5..31) \cup Bits(ParcelField(2, 5))
    ELSE Bits(ParcelField(2, 5))

\* The immediate of C.ADDI4SPN: nzuimm[5:4|9:6|2|3] in bits 12..5.
Nzuimm ==
    4 * ParcelField(6, 1) + 8 * ParcelField(5, 1) + 16 * ParcelField(11, 2)
    + 64 * ParcelField(7, 4)

\* C15: decode_compressed expands C.LI rd, imm to Addi {rd, rs1: 0, imm: sext6(imm)};
\* C.ADDI4SPN with a non-zero immediate to Addi {rd', rs1: 2, imm}; C.JR to Jalr {rd: 0,
\* rs1, imm: 0}; C.JALR to Jalr {rd: 1, rs1, imm: 0}; C.MV to Add {rd, rs1: 0, rs2}; and
\* decodes the all-zero halfword to Illegal.
C15_CompressedExpansion ==
    last.op = "decode_compressed" =>
       /\ (ParcelField(0, 2) = 1 /\ ParcelField(13, 3) = 2) =>
             last.inst = Inst("Addi", ParcelField(7, 5), 0, 0, Sext6, 0)
       /\ (ParcelField(0, 2) = 0 /\ ParcelField(13, 3) = 0 /\ Nzuimm # 0) =>
             last.inst = Inst("Addi", 8 + ParcelField(2, 3), 2, 0, Bits(Nzuimm), 0)
       /\ (ParcelField(0, 2) = 2 /\ ParcelField(12, 4) = 8 /\ ParcelField(2, 5) = 0
           /\ ParcelField(7, 5) # 0) =>
             last.inst = Inst("Jalr", 0, ParcelField(7, 5), 0, {}, 0)
       /\ (ParcelField(0, 2) = 2 /\ ParcelField(12, 4) = 9 /\ ParcelField(2, 5) = 0
           /\ ParcelField(7, 5) # 0) =>
             last.inst = Inst("Jalr", 1, ParcelField(7, 5), 0, {}, 0)
       /\ (ParcelField(0, 2) = 2 /\ ParcelField(12, 4) = 8 /\ ParcelField(2, 5) # 0) =>
             last.inst = Inst("Add", ParcelField(7, 5), 0, ParcelField(2, 5), {}, 0)
       /\ last.bits = {} => last.inst = Illegal

\* C15 happens: c.li x5, -1 is decoded to addi x5, x0, -1.
C15_Witness ==
    /\ last.op = "decode_compressed"
    /\ last.bits = EncC(1, 2, 1, 5, 31)
    /\ last.inst = Inst("Addi", 5, 0, 0, AllOnes(32), 0)

\* Instructions of each level of min_prv_level: mret, csrrw x5, mstatus, x1 (level 3),
\* sret, wfi, csrrs x5, sstatus, x0 (level 1), addi x5, x1, 3 and ecall (level 0).
LevelInsts ==
    {decode(w) : w \in {Hex(<<3, 0, 2, 0, 0, 0, 7, 3>>), EncI(115, 5, 1, 1, MSTATUS),
                        Hex(<<1, 0, 2, 0, 0, 0, 7, 3>>), Hex(<<1, 0, 5, 0, 0, 0, 7, 3>>),
                        EncI(115, 5, 2, 0, SSTATUS), EncI(19, 5, 0, 1, 3), Hex(<<7, 3>>)}}

\* C16: a hart that has just been created has every register 0 and is in Machine
\* mode; its mode field holds the ratified encoding 3, so that mode >= min_prv_level(inst)
\* for every instruction, mret (level 3) included.
C16_HartCreation ==
    status = "created" =>
       /\ \A r \in 0..31 : Get(x, r) = {}
       /\ mode = MACHINE_MODE
       /\ mode = 3
       /\ \A i \in LevelInsts : mode >= min_prv_level(i)

\* The 32-bit result of DIVW, DIVUW, REMW and REMUW on the 32-bit operands a and b.
WordQuotient(op, a, b) ==
    CASE op = "Divw" -> IF b = {} THEN AllOnes(32) ELSE SignedWrappingDiv(a, b, 32)
      [] op = "Divuw" -> IF b = {} THEN AllOnes(32) ELSE UDivMod(a, b, 32).q
      [] op = "Remw" -> IF b = {} THEN a ELSE SignedWrappingRem(a, b, 32)
      [] op = "Remuw" -> IF b = {} THEN a ELSE UDivMod(a, b, 32).r

\* C17: DIVW, DIVUW, REMW and REMUW operate on the low 32 bits of their operands and
\* write the 32-bit result sign-extended to 64 bits, for every pair of operands: a
\* divisor of 0 gives the quotient -1 and the remainder the low 32 bits of the dividend,
\* sign-extended, and an unsigned result with bit 31 set is sign-extended too.
C17_WordDivision ==
    (Executed /\ last.inst.op \in DivWOps /\ last.inst.rd # 0) =>
       Get(x, last.inst.rd)
          = SExt(WordQuotient(last.inst.op, Trunc(Get(last.x, last.inst.rs1), 32),
                              Trunc(Get(last.x, last.inst.rs2), 32)), 32, 64)

\* C18: csrrs and csrrc with rs1 = x0, on any CSR address (the aliases sstatus, sie and
\* sip included, whatever mie, mip and mideleg hold), write the value read to rd and
\* leave every CSR slot as it was.
C18_CsrReadOnlyAccess ==
    (Executed /\ last.inst.op \in {"Csrrs", "Csrrc"} /\ last.inst.rs1 = 0) =>
       /\ last.inst.rd # 0 => Get(x, last.inst.rd) = CsrsLoad(last.csrs, last.inst.csr)
       /\ csrs = last.csrs

\* ------------------------------------------------------------------------
\* Claims on the page walk (SpecWalk)
\* ------------------------------------------------------------------------

\* The entry the walk loads is one it faults on: V clear, or W set with R clear.
FaultingPte(pte) ==
    0 \notin pte \/ (1 \notin pte /\ 2 \in pte)

\* The walk of va from a level down, the table in the DRAM, comes to an entry it
\* faults on, or to a pointer at level 0.
RECURSIVE WalkFaults(_, _, _)
WalkFaultsAt(pte, va, level) ==
    \/ FaultingPte(pte)
    \/ IsPointer(pte) /\ (level = 0 \/ WalkFaults(PpnBase(pte), va, level - 1))

WalkFaults(table, va, level) ==
    /\ InRange(table, DRAM_BASE, WrappingSub(DRAM_END, Bits(4096), 64))
    /\ WalkFaultsAt(DramWord(PteAddr(table, va, level)), va, level)

\* C21: for every root, virtual address and memory contents, translate_sv39 makes at
\* most 3 loads of an entry and returns (a value or an exception); it returns the page
\* fault of the access type with the virtual address when an entry it visits has V
\* clear, or W set with R clear, and when the entry of level 0 is a pointer.
C21_PageWalkTermination ==
    last.op = "walk" =>
       /\ last.loads \in 1..3
       /\ last.res.tag \in {"Ok", "Err"}
       /\ WalkFaults(Shl(mmu.physical_page_number, 12, 64), last.addr, 2) =>
             last.res = PageFault(last.access_type, last.addr)

\* A walk of three loads that ends at a pointer in the table of level 0.
C21_Witness ==
    /\ last.op = "walk"
    /\ last.loads = 3
    /\ last.res = PageFault(last.access_type, last.addr)
    /\ IsPointer(DramWord(Hex(<<8, 0, 0, 0, 2, 0, 0, 8>>)))

\* ------------------------------------------------------------------------
\* Claims on the progress of the thread of the UART (SpecUartFair)
\* ------------------------------------------------------------------------

\* The thread, with byte n + 1 of stdin in hand after n stores, was blocked in
\* cvar.wait when the executor loaded the RHR, and has not stored the byte yet.
C30_Blocked(n) ==
    /\ last.op = "uart_load"
    /\ last.addr = UART_RHR
    /\ last.size = 1
    /\ last.waiting
    /\ Len(last.stored) = n
    /\ Len(uart.stored) = n
    /\ uart.eofs = 0
    /\ Len(uart.input) - Len(uart.stdin) = n + 1

\* The thread has stored the byte in hand as byte n + 1, raised the flag and set
\* receiver-ready, and is back at its read of stdin.
C30_Published(n) ==
    /\ Len(uart.stored) = n + 1
    /\ uart.stored[n + 1] = uart.byte
    /\ uart.raises = n + 1
    /\ ReceiverReady(uart.array)
    /\ uart.thread = "read"

\* C30: when the thread holds a byte and is blocked waiting for receiver-ready to
\* clear, then after the executor loads the RHR the thread, scheduled fairly,
\* eventually stores the byte, raises the flag and sets receiver-ready.
C30_UartProducerProgress ==
    \A n \in 0..(MaxInput - 1) :
       C30_Blocked(n) ~> C30_Published(n)

\* C30 without stores to the LSR: the notification of the load is not lost, and the
\* thread publishes the byte unless the executor writes the LSR.
C30_ProgressUnstored ==
    \A n \in 0..(MaxInput - 1) :
       C30_Blocked(n) ~> (C30_Published(n) \/ uart.lsr_stored)

\* The load of the RHR found the thread blocked with the second byte, and the thread
\* has published that byte.
C30_SecondBytePublished ==
    /\ last.op = "uart_load"
    /\ last.addr = UART_RHR
    /\ last.size = 1
    /\ last.waiting
    /\ Len(last.stored) = 1
    /\ C30_Published(1)
    /\ ~uart.lsr_stored

\* The thread is blocked again after a store set receiver-ready in the LSR.
C30_BlockedByStore ==
    /\ last.op = "uart_store"
    /\ last.addr = UART_LSR
    /\ uart.thread = "wait"
    /\ ReceiverReady(uart.array)
    /\ Len(uart.stored) = 1

====
